---- MODULE Spec2Model ----
(***************************************************************************)
(* Ledger service (codex-ledger, InMemoryLedgerService) and reconciliation *)
(* service (codex-reconcile, InMemoryReconciliationService) as state       *)
(* machines.  Every ledger call runs under the single state mutex, so one  *)
(* call is one atomic action.  Wall-clock fields (occurred_at, locked_at,  *)
(* proposed_at, opened_at, observed_at) and descriptive fields that no     *)
(* branch of the code reads (names, account_type, currency_mode, tax_code, *)
(* roles, locale) are left out of the records.                             *)
(***************************************************************************)
EXTENDS Integers, Sequences, FiniteSets, TLC

VARIABLES
    company_seq,      \* State.company_seq
    companies,        \* State.companies       : CompanyId -> Company
    accounts,         \* State.accounts        : AccountId -> Account
    account_codes,    \* State.account_codes   : CompanyId -> (code -> AccountId)
    journals,         \* State.journals        : <<CompanyId, JournalId>> -> Journal
    periods,          \* State.periods         : <<CompanyId, JournalId, year, period>> -> PeriodState
    entries,          \* State.entries         : JournalEntryId -> JournalEntry
    entry_companies,  \* State.entry_companies : JournalEntryId -> CompanyId
    audit_events,     \* State.audit_events    : Seq(AuditEvent)
    audit_seq,        \* State.audit_seq
    response          \* the last ledger call: its request and the LedgerResult it returned

ledgerVars == <<company_seq, companies, accounts, account_codes, journals, periods,
                entries, entry_companies, audit_events, audit_seq, response>>

VARIABLES
    sessions,         \* InMemoryReconciliationStore.sessions : SessionId -> ReconciliationSession
    session_seq,      \* number of session ids drawn from Uuid::new_v4
    candidate_seq,    \* number of candidate ids drawn from Uuid::new_v4
    recon_response    \* the last reconciliation call: request, fetched copy, ReconcileResult

reconVars == <<sessions, session_seq, candidate_seq, recon_response>>

VARIABLES
    state_mutex,      \* InMemoryLedgerService.state: the task that holds the Mutex, if any
    ledger_calls,     \* per task: the ledger call it is executing, statement by statement
    recon_calls       \* per task: the reconciliation call it is executing inside modify_session

taskVars == <<state_mutex, ledger_calls, recon_calls>>

VARIABLES
    audit_hooks,      \* InMemoryReconciliationService.audit_hooks : Seq(hook)
    hook_log          \* per hook: the events its record() was called with, in order

hookVars == <<audit_hooks, hook_log>>

VARIABLES
    held_entry,       \* a JournalEntry in a caller's hands, outside the ledger's State
    scored            \* the last ScoringStrategy::score call: strategy, proposal, outcome

callerVars == <<held_entry, scored>>

vars == <<ledgerVars, reconVars, taskVars, hookVars, callerVars>>

----------------------------------------------------------------------------
(* Option<T>: None is the empty sequence, Some(x) the one-element sequence *)
None == <<>>
Some(x) == <<x>>
IsSome(o) == o # <<>>

EmptyMap == <<>>
Put(map, k, v) == (k :> v) @@ map

USD == [code |-> "USD", precision |-> 2]
EUR == [code |-> "EUR", precision |-> 2]

\* CurrencyRate.rate is an f64; the model keeps it as an integer number of
\* 1/RateScale units, so 1.0753 is 10753.
RateScale == 10000

Ok(value) == [status |-> "Ok", message |-> "", value |-> value]
Err(kind, message) == [status |-> kind, message |-> message, value |-> None]

----------------------------------------------------------------------------
(* Pure functions of lib.rs                                                *)

\* lets every active account take postings, summary accounts included
allows_posting_any_active(account) == account.is_active

allows_posting(account) == account.is_active /\ ~account.is_summary

RECURSIVE SumSide(_, _, _)
SumSide(lines, side, i) ==
    IF i > Len(lines) THEN 0
    ELSE (IF lines[i].side = side THEN lines[i].functional_amount_minor ELSE 0)
         + SumSide(lines, side, i + 1)

\* compares the transactional amounts instead of the functional ones
is_balanced_transactional(entry) ==
    LET net[i \in 0..Len(entry.lines)] ==
            IF i = 0 THEN 0
            ELSE net[i - 1] + (IF entry.lines[i].side = "Debit"
                               THEN entry.lines[i].amount_minor
                               ELSE -entry.lines[i].amount_minor)
    IN  net[Len(entry.lines)] = 0

is_balanced(entry) == SumSide(entry.lines, "Debit", 1) = SumSide(entry.lines, "Credit", 1)

Abs(n) == IF n < 0 THEN -n ELSE n

\* f64::round of num/den (den > 0): to nearest, ties away from zero
RoundDiv(num, den) ==
    IF num >= 0 THEN (2 * num + den) \div (2 * den)
    ELSE -((2 * (-num) + den) \div (2 * den))

\* accepts a rate that names no source
LineHasProvenance_source_optional(line) ==
    IF line.currency = line.functional_currency
    THEN ~IsSome(line.exchange_rate) /\ line.amount_minor = line.functional_amount_minor
    ELSE /\ IsSome(line.exchange_rate)
         /\ LET rate == line.exchange_rate[1] IN
              /\ rate.base = line.currency
              /\ rate.quote = line.functional_currency
              /\ Abs(RoundDiv(line.amount_minor * rate.rate, RateScale)
                     - line.functional_amount_minor) <= 2

LineHasProvenance(line) ==
    IF line.currency = line.functional_currency
    THEN ~IsSome(line.exchange_rate) /\ line.amount_minor = line.functional_amount_minor
    ELSE /\ IsSome(line.exchange_rate)
         /\ LET rate == line.exchange_rate[1] IN
              /\ rate.base = line.currency
              /\ rate.quote = line.functional_currency
              /\ IsSome(rate.source)
              /\ Abs(RoundDiv(line.amount_minor * rate.rate, RateScale)
                     - line.functional_amount_minor) <= 2

validate_entry_provenance_only(entry) ==
    IF \E i \in 1..Len(entry.lines) : ~LineHasProvenance(entry.lines[i])
    THEN Err("Validation", "Currency amounts must include provenance")
    ELSE Ok(None)

validate_entry(entry) ==
    IF ~is_balanced(entry)
    THEN Err("Validation", "Journal entry must balance")
    ELSE IF \E i \in 1..Len(entry.lines) : ~LineHasProvenance(entry.lines[i])
    THEN Err("Validation", "Currency amounts must include provenance")
    ELSE Ok(None)

\* ReconciliationStatus: Unreconciled, Pending{session_id},
\* Reconciled{session_id}, WriteOff{approval_reference}
Unreconciled == [kind |-> "Unreconciled", ref |-> ""]
Pending(session_id) == [kind |-> "Pending", ref |-> session_id]
Reconciled(session_id) == [kind |-> "Reconciled", ref |-> session_id]
WriteOffStatus(approval_reference) == [kind |-> "WriteOff", ref |-> approval_reference]

\* str::trim on a string kept as a sequence of characters
Whitespace == {" ", "\t"}

RECURSIVE TrimStart(_)
TrimStart(text) ==
    IF text # <<>> /\ Head(text) \in Whitespace THEN TrimStart(Tail(text)) ELSE text

RECURSIVE TrimEnd(_)
TrimEnd(text) ==
    IF text # <<>> /\ text[Len(text)] \in Whitespace
    THEN TrimEnd(SubSeq(text, 1, Len(text) - 1))
    ELSE text

Trim(text) == TrimEnd(TrimStart(text))

\* what the last ledger call was asked and what it returned
Respond(op, request, result) == [op |-> op, request |-> request, result |-> result]

\* each method of JournalEntry gives the LedgerResult and the entry after it
MethodOutcome(result, entry) == [result |-> result, entry |-> entry]

mark_reconciliation_pending(entry, session_id) ==
    IF entry.reconciliation_status.kind \in {"Unreconciled", "Pending"}
    THEN MethodOutcome(Ok(None), [entry EXCEPT !.reconciliation_status = Pending(session_id)])
    ELSE MethodOutcome(Err("Validation",
                           "cannot mark entry pending after reconciliation or write-off"),
                       entry)

\* reconciles a Pending entry whatever session holds it
mark_reconciled_any_session(entry, session_id) ==
    CASE entry.reconciliation_status.kind = "Pending" ->
            MethodOutcome(Ok(None),
                          [entry EXCEPT !.reconciliation_status = Reconciled(session_id)])
      [] entry.reconciliation_status.kind = "Reconciled" -> MethodOutcome(Ok(None), entry)
      [] OTHER ->
            MethodOutcome(Err("Validation", "entry must be pending before reconciliation"),
                          entry)

mark_reconciled(entry, session_id) ==
    CASE entry.reconciliation_status.kind = "Pending"
            /\ entry.reconciliation_status.ref = session_id ->
            MethodOutcome(Ok(None),
                          [entry EXCEPT !.reconciliation_status = Reconciled(session_id)])
      [] entry.reconciliation_status.kind = "Pending"
            /\ entry.reconciliation_status.ref # session_id ->
            MethodOutcome(Err("Validation",
                              "entry is pending reconciliation under session "
                                  \o entry.reconciliation_status.ref),
                          entry)
      [] entry.reconciliation_status.kind = "Reconciled" -> MethodOutcome(Ok(None), entry)
      [] OTHER ->
            MethodOutcome(Err("Validation", "entry must be pending before reconciliation"),
                          entry)

mark_write_off(entry, approval_reference) ==
    IF Trim(approval_reference) = <<>>
    THEN MethodOutcome(Err("Validation", "write-off requires an approval reference"), entry)
    ELSE CASE entry.reconciliation_status.kind \in {"Unreconciled", "Pending"} ->
                 MethodOutcome(Ok(None),
                               [entry EXCEPT !.reconciliation_status =
                                                 WriteOffStatus(approval_reference)])
           [] entry.reconciliation_status.kind = "Reconciled" ->
                 MethodOutcome(Err("Validation", "reconciled entries cannot be written off"),
                               entry)
           [] OTHER -> MethodOutcome(Ok(None), entry)

clear_reconciliation(entry) ==
    MethodOutcome(Ok(None), [entry EXCEPT !.reconciliation_status = Unreconciled])

journal_key(company_id, journal_id) == <<company_id, journal_id>>

period_key(company_id, journal_id, period) ==
    <<company_id, journal_id, period.fiscal_year, period.period>>

\* the AuditEvent that record_audit_event pushes, given the incremented counter
\* numbers the event by the parity of the counter
AuditRecord_wrapped_id(seq, company_id, entity_id, actor, description) ==
    [id |-> "audit-" \o ToString(seq % 2),
     company_id |-> company_id,
     entity_id |-> entity_id,
     actor |-> actor,
     description |-> description]

AuditRecord(seq, company_id, entity_id, actor, description) ==
    [id |-> "audit-" \o ToString(seq),
     company_id |-> company_id,
     entity_id |-> entity_id,
     actor |-> actor,
     description |-> description]

----------------------------------------------------------------------------
(* Ledger operations (memory.rs).  Each XxxResult operator is the value    *)
(* the call returns in the current state; each action is the whole call.   *)

NewJournal(company_id, journal_id) ==
    [id |-> journal_id,
     company_id |-> company_id,
     period_state |-> "Open",
     latest_lock |-> None,
     lock_history |-> <<>>]

CreateCompany(request) ==
    LET seq == company_seq + 1
        id == "co-" \o ToString(seq)
        company == [id |-> id, base_currency |-> request.base_currency]
    IN  /\ company_seq' = seq
        /\ companies' = Put(companies, id, company)
        /\ account_codes' = IF id \in DOMAIN account_codes
                            THEN account_codes
                            ELSE Put(account_codes, id, EmptyMap)
        /\ journals' = Put(journals, journal_key(id, "jnl-gl"), NewJournal(id, "jnl-gl"))
        /\ response' = Respond("create_company", request, Ok(company))
        /\ UNCHANGED <<accounts, periods, entries, entry_companies, audit_events, audit_seq>>

UpsertAccountResult(account) ==
    IF account.company_id \notin DOMAIN companies
    THEN Err("NotFound", "company")
    ELSE IF /\ account.company_id \in DOMAIN account_codes
            /\ account.code \in DOMAIN account_codes[account.company_id]
    THEN IF account_codes[account.company_id][account.code] # account.id
         THEN Err("Validation", "duplicate account code")
         ELSE Err("Validation", "account code already exists")
    ELSE IF account.id \in DOMAIN accounts
    THEN Err("Validation", "account identifier already exists")
    ELSE IF ~account.is_summary /\ ~allows_posting(account)
    THEN Err("Validation", "account must be active and non-summary")
    ELSE IF IsSome(account.parent_account_id)
    THEN LET parent_id == account.parent_account_id[1] IN
         IF parent_id \notin DOMAIN accounts
         THEN Err("NotFound", "parent account")
         ELSE IF ~accounts[parent_id].is_summary
         THEN Err("Validation", "parent account must be summary")
         ELSE Ok(account)
    ELSE Ok(account)

UpsertAccount(request) ==
    LET account == request.account
        result == UpsertAccountResult(account)
    IN  /\ response' = Respond("upsert_account", request, result)
        /\ IF result.status = "Ok"
           THEN /\ accounts' = Put(accounts, account.id, account)
                /\ account_codes' =
                     Put(account_codes, account.company_id,
                         Put(IF account.company_id \in DOMAIN account_codes
                             THEN account_codes[account.company_id]
                             ELSE EmptyMap,
                             account.code, account.id))
           ELSE UNCHANGED <<accounts, account_codes>>
        /\ UNCHANGED <<company_seq, companies, journals, periods, entries,
                       entry_companies, audit_events, audit_seq>>

make_account_id(company_id, code) == "acc-" \o company_id \o "-" \o code

\* the account seed_chart builds from a template
SeededAccount(company_id, template, parent_id) ==
    [id |-> make_account_id(company_id, template.code),
     company_id |-> company_id,
     code |-> template.code,
     parent_account_id |-> parent_id,
     is_summary |-> template.is_summary,
     is_active |-> TRUE]

\* looks a template's code up among the stored codes only
BatchHasCode_stored_only(new_codes, code) == FALSE

BatchHasCode(new_codes, code) == code \in DOMAIN new_codes

\* the loop of seed_chart over request.accounts from template i on, with the
\* accounts staged and the codes taken so far: the first failing template
\* decides the error, otherwise the staged accounts
RECURSIVE StageChart(_, _, _, _)
StageChart(request, i, staged, new_codes) ==
    IF i > Len(request.accounts) THEN Ok(staged)
    ELSE LET template == request.accounts[i]
             codes == IF request.company_id \in DOMAIN account_codes
                      THEN account_codes[request.company_id]
                      ELSE EmptyMap
         IN  IF template.code \in DOMAIN codes \/ BatchHasCode(new_codes, template.code)
             THEN Err("Validation", "account code " \o template.code \o " already exists")
             ELSE IF /\ IsSome(template.parent_code)
                     /\ template.parent_code[1] \notin DOMAIN codes
                     /\ template.parent_code[1] \notin DOMAIN new_codes
             THEN Err("NotFound", "parent account " \o template.parent_code[1])
             ELSE LET parent_id ==
                          IF IsSome(template.parent_code)
                          THEN IF template.parent_code[1] \in DOMAIN codes
                               THEN Some(codes[template.parent_code[1]])
                               ELSE Some(new_codes[template.parent_code[1]])
                          ELSE None
                      account == SeededAccount(request.company_id, template, parent_id)
                  IN  IF account.id \in DOMAIN accounts
                      THEN Err("Validation", "account " \o account.id \o " already exists")
                      ELSE IF ~account.is_summary /\ ~allows_posting(account)
                      THEN Err("Validation", "account must be active and non-summary")
                      ELSE StageChart(request, i + 1, Append(staged, account),
                                      Put(new_codes, template.code, account.id))

SeedChartResult(request) ==
    IF request.company_id \notin DOMAIN companies
    THEN Err("NotFound", "company " \o request.company_id)
    ELSE StageChart(request, 1, <<>>, EmptyMap)

\* the two insertion loops of seed_chart over the staged accounts
RECURSIVE InsertCodes(_, _, _)
InsertCodes(codes, staged, i) ==
    IF i > Len(staged) THEN codes
    ELSE InsertCodes(Put(codes, staged[i].code, staged[i].id), staged, i + 1)

RECURSIVE InsertAccounts(_, _, _)
InsertAccounts(stored, staged, i) ==
    IF i > Len(staged) THEN stored
    ELSE InsertAccounts(Put(stored, staged[i].id, staged[i]), staged, i + 1)

SeedChart(request) ==
    LET result == SeedChartResult(request) IN
    /\ response' = Respond("seed_chart", request, result)
    /\ IF result.status = "Ok"
       THEN /\ account_codes' =
                 Put(account_codes, request.company_id,
                     InsertCodes(IF request.company_id \in DOMAIN account_codes
                                 THEN account_codes[request.company_id]
                                 ELSE EmptyMap,
                                 result.value, 1))
            /\ accounts' = InsertAccounts(accounts, result.value, 1)
       ELSE UNCHANGED <<accounts, account_codes>>
    /\ UNCHANGED <<company_seq, companies, journals, periods, entries,
                   entry_companies, audit_events, audit_seq>>

\* the loop of post_entry over entry.lines: the first failing line decides
\* the error, otherwise the company of the accounts
RECURSIVE ResolveLines(_, _, _)
ResolveLines(lines, i, company_id) ==
    IF i > Len(lines) THEN Ok(company_id)
    ELSE IF lines[i].account_id \notin DOMAIN accounts
    THEN Err("NotFound", "account " \o lines[i].account_id)
    ELSE LET account == accounts[lines[i].account_id] IN
         IF IsSome(company_id) /\ company_id[1] # account.company_id
         THEN Err("Validation", "all journal entry lines must belong to the same company")
         ELSE IF ~allows_posting(account)
         THEN Err("Validation", "cannot post to summary or inactive account")
         ELSE ResolveLines(lines, i + 1, Some(account.company_id))

\* the match on journal.period_state in post_entry
period_gate_soft_open(period_state) ==
    IF period_state = "Closed" THEN Err("Rejected", "period closed") ELSE Ok(None)

period_gate(period_state) ==
    CASE period_state = "Open" -> Ok(None)
      [] period_state = "SoftClosed" ->
            Err("Rejected", "soft-close prevents posting without override")
      [] period_state = "Closed" -> Err("Rejected", "period closed")

\* sets the status and keeps the caller's links and reconciliation status
PostedCopy_keeps_links(entry, status) == [entry EXCEPT !.status = status]

\* the entry as post_entry returns (and, in Commit mode, stores) it
PostedCopy(entry, status) ==
    [entry EXCEPT !.status = status,
                  !.reverses_entry_id = None,
                  !.reversed_by_entry_id = None,
                  !.reconciliation_status = [kind |-> "Unreconciled", ref |-> ""]]

PostEntryResult(request) ==
    LET entry == request.entry IN
    IF Len(entry.lines) = 0
    THEN Err("Validation", "journal entry must contain at least one line")
    ELSE LET resolved == ResolveLines(entry.lines, 1, None) IN
    IF resolved.status # "Ok" THEN resolved
    ELSE IF ~IsSome(resolved.value)
    THEN Err("Validation", "journal entry must contain at least one line")
    ELSE LET key == journal_key(resolved.value[1], entry.journal_id) IN
    IF key \notin DOMAIN journals
    THEN Err("NotFound", "journal " \o entry.journal_id)
    ELSE LET gate == period_gate(journals[key].period_state) IN
    IF gate.status # "Ok" THEN gate
    ELSE LET valid == validate_entry(entry) IN
    IF valid.status # "Ok" THEN valid
    ELSE IF request.mode = "DryRun"
    THEN Ok(PostedCopy(entry, "Proposed"))
    ELSE Ok(PostedCopy(entry, "Posted"))

\* stores whatever the call returns, previews included
Commits_any_mode(request, result) == result.status = "Ok"

\* the PostingMode::Commit arm is reached
Commits(request, result) == result.status = "Ok" /\ request.mode = "Commit"

PostEntry(request) ==
    LET result == PostEntryResult(request) IN
    /\ response' = Respond("post_entry", request, result)
    /\ IF Commits(request, result)
       THEN LET entry == result.value
                company_id == ResolveLines(request.entry.lines, 1, None).value[1]
            IN  /\ entries' = Put(entries, entry.id, entry)
                /\ entry_companies' = Put(entry_companies, entry.id, company_id)
                /\ audit_seq' = audit_seq + 1
                /\ audit_events' = Append(audit_events,
                       AuditRecord(audit_seq + 1, company_id, entry.id,
                                   request.tenant.user_id,
                                   "Posted entry " \o entry.journal_id))
       ELSE UNCHANGED <<entries, entry_companies, audit_seq, audit_events>>
    /\ UNCHANGED <<company_seq, companies, accounts, account_codes, journals, periods>>

FlipSide(side) == IF side = "Debit" THEN "Credit" ELSE "Debit"

ReversingLine_same_side(line) == [line EXCEPT !.id = line.id \o "-rev"]

ReversingLine(line) ==
    [line EXCEPT !.id = line.id \o "-rev", !.side = FlipSide(line.side)]

\* leaves the reason out of the memo of the reversal
ReversingEntry_memo_without_reason(entry, new_entry_id, reason) ==
    [id |-> new_entry_id,
     journal_id |-> entry.journal_id,
     status |-> "Posted",
     reconciliation_status |-> [kind |-> "Unreconciled", ref |-> ""],
     lines |-> [i \in 1..Len(entry.lines) |-> ReversingLine(entry.lines[i])],
     origin |-> "Adjustment",
     memo |-> Some("Reversal of " \o entry.id),
     reverses_entry_id |-> Some(entry.id),
     reversed_by_entry_id |-> None]

ReversingEntry(entry, new_entry_id, reason) ==
    [id |-> new_entry_id,
     journal_id |-> entry.journal_id,
     status |-> "Posted",
     reconciliation_status |-> [kind |-> "Unreconciled", ref |-> ""],
     lines |-> [i \in 1..Len(entry.lines) |-> ReversingLine(entry.lines[i])],
     origin |-> "Adjustment",
     memo |-> Some("Reversal of " \o entry.id \o ": " \o reason),
     reverses_entry_id |-> Some(entry.id),
     reversed_by_entry_id |-> None]

ReversalId(original_id) ==
    original_id \o "-rev-" \o ToString(Cardinality(DOMAIN entries) + 1)

ReverseEntryResult(request) ==
    IF request.entry_id \notin DOMAIN entries
    THEN Err("NotFound", "entry " \o request.entry_id)
    ELSE IF request.entry_id \notin DOMAIN entry_companies
    THEN Err("Internal", "missing company mapping for entry " \o request.entry_id)
    ELSE LET entry == entries[request.entry_id] IN
    IF entry.status # "Posted"
    THEN Err("Rejected", "entry is not posted")
    ELSE IF IsSome(entry.reversed_by_entry_id)
    THEN Err("Rejected", "entry already reversed")
    ELSE Ok(ReversingEntry(entry, ReversalId(entry.id), request.reason))

\* what reverse_entry writes once its checks produced `result`
ReverseEntryEffect(request, result) ==
    /\ response' = Respond("reverse_entry", request, result)
    /\ IF result.status = "Ok"
       THEN LET reversing_entry == result.value
                original_id == entries[request.entry_id].id
                company_id == entry_companies[request.entry_id]
            IN  /\ entries' =
                     Put([entries EXCEPT ![request.entry_id].reversed_by_entry_id =
                                             Some(reversing_entry.id)],
                         reversing_entry.id, reversing_entry)
                /\ entry_companies' = Put(entry_companies, reversing_entry.id, company_id)
                /\ audit_seq' = audit_seq + 2
                /\ audit_events' = audit_events \o
                     << AuditRecord(audit_seq + 1, company_id, original_id,
                                    request.tenant.user_id,
                                    "Reversal requested: " \o request.reason),
                        AuditRecord(audit_seq + 2, company_id, reversing_entry.id,
                                    request.tenant.user_id,
                                    reversing_entry.memo[1]) >>
       ELSE UNCHANGED <<entries, entry_companies, audit_seq, audit_events>>
    /\ UNCHANGED <<company_seq, companies, accounts, account_codes, journals, periods>>

ReverseEntry(request) == ReverseEntryEffect(request, ReverseEntryResult(request))

(* reverse_entry executed by concurrent tasks, statement by statement      *)

Tasks == {"a", "b"}

IdleLedgerCall == [pc |-> "idle", request |-> None, result |-> Ok(None), contended |-> FALSE]

InFlight(task) == ledger_calls[task].pc \in {"waiting", "locked", "checked"}

\* the call is made; it overlaps every call that has not returned yet
InvokeReverse(task, request) ==
    /\ ledger_calls[task].pc = "idle"
    /\ ledger_calls' =
         [ledger_calls EXCEPT ![task] =
            [IdleLedgerCall EXCEPT !.pc = "waiting", !.request = request,
                                   !.contended = \E other \in Tasks \ {task} :
                                                     InFlight(other)]]
    /\ UNCHANGED <<ledgerVars, state_mutex>>

\* a lock that is handed out while another task holds it
MutexFree_unguarded == TRUE

\* tokio::sync::Mutex: lock() completes when no task holds the guard
MutexFree == state_mutex = None

\* let mut state = self.state.lock().await;
AcquireState(task) ==
    /\ ledger_calls[task].pc = "waiting"
    /\ MutexFree
    /\ state_mutex' = Some(task)
    /\ ledger_calls' = [ledger_calls EXCEPT ![task].pc = "locked"]
    /\ UNCHANGED ledgerVars

\* the lookups and the status tests; an early return drops the guard
CheckReverse(task) ==
    /\ ledger_calls[task].pc = "locked"
    /\ LET request == ledger_calls[task].request
           result == ReverseEntryResult(request)
       IN  IF result.status = "Ok"
           THEN /\ ledger_calls' = [ledger_calls EXCEPT ![task].pc = "checked",
                                                        ![task].result = result]
                /\ UNCHANGED <<ledgerVars, state_mutex>>
           ELSE /\ ledger_calls' = [ledger_calls EXCEPT ![task].pc = "done",
                                                        ![task].result = result]
                /\ ReverseEntryEffect(request, result)
                /\ state_mutex' = None

\* the inserts and the audit events; the return drops the guard
CommitReverse(task) ==
    /\ ledger_calls[task].pc = "checked"
    /\ ReverseEntryEffect(ledger_calls[task].request, ledger_calls[task].result)
    /\ ledger_calls' = [ledger_calls EXCEPT ![task].pc = "done"]
    /\ state_mutex' = None

\* a full reopen that only goes back to SoftClosed
TargetState_reopen_full_soft(action) ==
    CASE action = "SoftClose"  -> "SoftClosed"
      [] action = "Close"      -> "Closed"
      [] action = "ReopenSoft" -> "SoftClosed"
      [] action = "ReopenFull" -> "SoftClosed"

TargetState(action) ==
    CASE action = "SoftClose"  -> "SoftClosed"
      [] action = "Close"      -> "Closed"
      [] action = "ReopenSoft" -> "SoftClosed"
      [] action = "ReopenFull" -> "Open"

LockRecord(request) ==
    [period |-> request.period,
     action |-> request.action,
     approval_reference |-> request.approval_reference,
     locked_by |-> request.tenant.user_id]

\* skips the history record when the request repeats the latest lock
LockedJournal_idempotent(journal, request) ==
    IF journal.latest_lock = Some(LockRecord(request))
    THEN [journal EXCEPT !.period_state = TargetState(request.action)]
    ELSE [journal EXCEPT !.period_state = TargetState(request.action),
                         !.lock_history = Append(journal.lock_history, LockRecord(request)),
                         !.latest_lock = Some(LockRecord(request))]

LockedJournal(journal, request) ==
    [journal EXCEPT !.period_state = TargetState(request.action),
                    !.lock_history = Append(journal.lock_history, LockRecord(request)),
                    !.latest_lock = Some(LockRecord(request))]

LockPeriodResult(request) ==
    LET key == journal_key(request.tenant.tenant_id, request.journal_id) IN
    IF key \notin DOMAIN journals
    THEN Err("NotFound", "journal " \o request.journal_id)
    ELSE Ok(LockedJournal(journals[key], request))

LockDescription(request) ==
    "Journal period " \o ToString(request.period.fiscal_year) \o "/"
        \o ToString(request.period.period)
        \o " set to " \o TargetState(request.action)
        \o " (approval "
        \o (IF IsSome(request.approval_reference)
            THEN request.approval_reference[1] ELSE "None")
        \o ")"

LockPeriod(request) ==
    LET result == LockPeriodResult(request)
        key == journal_key(request.tenant.tenant_id, request.journal_id)
    IN  /\ response' = Respond("lock_period", request, result)
        /\ IF result.status = "Ok"
           THEN /\ journals' = [journals EXCEPT ![key] = result.value]
                /\ periods' = Put(periods,
                                  period_key(request.tenant.tenant_id,
                                             request.journal_id, request.period),
                                  TargetState(request.action))
                /\ audit_seq' = audit_seq + 1
                /\ audit_events' = Append(audit_events,
                       AuditRecord(audit_seq + 1, request.tenant.tenant_id,
                                   request.journal_id, request.tenant.user_id,
                                   LockDescription(request)))
           ELSE UNCHANGED <<journals, periods, audit_seq, audit_events>>
        /\ UNCHANGED <<company_seq, companies, accounts, account_codes,
                       entries, entry_companies>>

\* answers with the journal as stored, whatever the period asked for
EnsurePeriodResult_journal_state(request) ==
    LET company_id == request.tenant.tenant_id
        key == journal_key(company_id, request.journal_id)
    IN  IF company_id \notin DOMAIN companies
        THEN Err("NotFound", "company " \o company_id)
        ELSE IF key \notin DOMAIN journals
        THEN Err("NotFound", "journal " \o request.journal_id)
        ELSE Ok(journals[key])

EnsurePeriodResult(request) ==
    LET company_id == request.tenant.tenant_id
        key == journal_key(company_id, request.journal_id)
        pkey == period_key(company_id, request.journal_id, request.period)
    IN  IF company_id \notin DOMAIN companies
        THEN Err("NotFound", "company " \o company_id)
        ELSE IF key \notin DOMAIN journals
        THEN Err("NotFound", "journal " \o request.journal_id)
        ELSE Ok([journals[key] EXCEPT !.period_state =
                     IF pkey \in DOMAIN periods THEN periods[pkey] ELSE "Open"])

EnsurePeriod(request) ==
    LET result == EnsurePeriodResult(request)
        pkey == period_key(request.tenant.tenant_id, request.journal_id, request.period)
    IN  /\ response' = Respond("ensure_period", request, result)
        /\ periods' = IF result.status = "Ok" /\ pkey \notin DOMAIN periods
                      THEN Put(periods, pkey, "Open")
                      ELSE periods
        /\ UNCHANGED <<company_seq, companies, accounts, account_codes, journals,
                       entries, entry_companies, audit_events, audit_seq>>

\* index of the first element of events whose id is the cursor, 0 if none
RECURSIVE Position(_, _, _)
Position(events, cursor, i) ==
    IF i > Len(events) THEN 0
    ELSE IF events[i].id = cursor THEN i
    ELSE Position(events, cursor, i + 1)

\* trusts an explicit entity_id: the tenant filter is applied only without one
ListAuditTrailResult_entity_unscoped(filter) ==
    LET OfTenant(event) == event.company_id = filter.tenant.tenant_id
        OfEntity(event) == event.entity_id = filter.entity_id[1]
        byEntity == IF IsSome(filter.entity_id)
                    THEN SelectSeq(audit_events, OfEntity)
                    ELSE SelectSeq(audit_events, OfTenant)
        pos == IF IsSome(filter.cursor) THEN Position(byEntity, filter.cursor[1], 1) ELSE 0
        afterCursor == SubSeq(byEntity, pos + 1, Len(byEntity))
        limited == IF IsSome(filter.limit) /\ Len(afterCursor) > filter.limit[1]
                   THEN SubSeq(afterCursor, 1, filter.limit[1])
                   ELSE afterCursor
    IN  Ok(limited)

\* drops the events before the cursor and keeps the cursor's own event
ListAuditTrailResult_cursor_kept(filter) ==
    LET OfTenant(event) == event.company_id = filter.tenant.tenant_id
        OfEntity(event) == event.entity_id = filter.entity_id[1]
        byTenant == SelectSeq(audit_events, OfTenant)
        byEntity == IF IsSome(filter.entity_id)
                    THEN SelectSeq(byTenant, OfEntity) ELSE byTenant
        pos == IF IsSome(filter.cursor) THEN Position(byEntity, filter.cursor[1], 1) ELSE 0
        afterCursor == SubSeq(byEntity, IF pos = 0 THEN 1 ELSE pos, Len(byEntity))
        limited == IF IsSome(filter.limit) /\ Len(afterCursor) > filter.limit[1]
                   THEN SubSeq(afterCursor, 1, filter.limit[1])
                   ELSE afterCursor
    IN  Ok(limited)

ListAuditTrailResult(filter) ==
    LET OfTenant(event) == event.company_id = filter.tenant.tenant_id
        OfEntity(event) == event.entity_id = filter.entity_id[1]
        byTenant == SelectSeq(audit_events, OfTenant)
        byEntity == IF IsSome(filter.entity_id)
                    THEN SelectSeq(byTenant, OfEntity) ELSE byTenant
        pos == IF IsSome(filter.cursor) THEN Position(byEntity, filter.cursor[1], 1) ELSE 0
        afterCursor == SubSeq(byEntity, pos + 1, Len(byEntity))
        limited == IF IsSome(filter.limit) /\ Len(afterCursor) > filter.limit[1]
                   THEN SubSeq(afterCursor, 1, filter.limit[1])
                   ELSE afterCursor
    IN  Ok(limited)

ListAuditTrail(filter) ==
    /\ response' = Respond("list_audit_trail", filter, ListAuditTrailResult(filter))
    /\ UNCHANGED <<company_seq, companies, accounts, account_codes, journals, periods,
                   entries, entry_companies, audit_events, audit_seq>>

----------------------------------------------------------------------------
(* Reconciliation (codex-reconcile/src/lib.rs)                             *)

ReconOk(value) == [status |-> "Ok", message |-> "", value |-> value]
ReconErr(kind, message) == [status |-> kind, message |-> message, value |-> None]

\* f32 scores and weights are kept as integers in units of 1/ScoreScale
ScoreScale == 1000000

Clamp(x, lo, hi) == IF x < lo THEN lo ELSE IF x > hi THEN hi ELSE x

\* str::to_ascii_lowercase on the words the proposals use
to_ascii_lowercase(token) ==
    CASE token = "Rent" -> "rent"
      [] token = "Invoice" -> "invoice"
      [] OTHER -> token

\* a description is its split_whitespace() word sequence
description_similarity(left, right) ==
    LET left_tokens == {to_ascii_lowercase(left[i]) : i \in 1..Len(left)}
        right_tokens == {to_ascii_lowercase(right[i]) : i \in 1..Len(right)}
    IN  IF left_tokens = {} \/ right_tokens = {} THEN 0
        ELSE Clamp((Cardinality(left_tokens \cap right_tokens) * ScoreScale)
                       \div Cardinality(left_tokens \cup right_tokens),
                   0, ScoreScale)

\* WeightedScoringStrategy::default(): weights 0.45 / 0.35 / 0.20,
\* amount tolerance 5000 minor units, date tolerance 7 days
DefaultStrategy ==
    [amount_weight |-> 450, date_weight |-> 350, description_weight |-> 200,
     amount_tolerance_minor |-> 5000, date_tolerance_days |-> 7]

\* i64::MIN.  TLC's integers end at 2^31, so the model writes the one i64
\* whose abs() overflows as a number below every other delta it uses; the
\* operators below read only that it is negative and that it is i64::MIN.
I64Min == -2147483647

\* i64::abs without overflow checks: i64::MIN wraps to itself
wrapping_abs(n) == IF n = I64Min THEN I64Min ELSE Abs(n)

\* (1.0 - (delta.abs() as f32) / (tolerance as f32)).clamp(0.0, 1.0): a
\* negative abs() gives a ratio below 0 and so 1.0; the quotient is split so
\* that no intermediate product leaves TLC's integers
normalize(delta, tolerance) ==
    LET magnitude == wrapping_abs(delta) IN
    IF magnitude < 0 THEN ScoreScale
    ELSE IF magnitude >= tolerance THEN 0
    ELSE Clamp(ScoreScale - ( magnitude * (ScoreScale \div tolerance)
                                + (magnitude * (ScoreScale % tolerance)) \div tolerance ),
               0, ScoreScale)

score(strategy, proposal) ==
    LET total_weight == strategy.amount_weight + strategy.date_weight
                            + strategy.description_weight
        weighted ==
            normalize(proposal.amount_delta_minor, strategy.amount_tolerance_minor)
                * strategy.amount_weight
            + normalize(proposal.date_delta_days, strategy.date_tolerance_days)
                * strategy.date_weight
            + description_similarity(proposal.transaction_description,
                                     proposal.journal_description)
                * strategy.description_weight
    IN  IF total_weight <= 0 THEN 0
        ELSE Clamp(weighted \div total_weight, 0, ScoreScale)

\* WeightedScoringStrategy::new: tolerances are raised to 1 at least
WeightedScoringStrategyNew(amount_weight, date_weight, description_weight, amount_tolerance_minor, date_tolerance_days) ==
    [amount_weight |-> amount_weight, date_weight |-> date_weight,
     description_weight |-> description_weight,
     amount_tolerance_minor |-> IF amount_tolerance_minor < 1 THEN 1
                                ELSE amount_tolerance_minor,
     date_tolerance_days |-> IF date_tolerance_days < 1 THEN 1 ELSE date_tolerance_days]

\* strategy.score(&proposal) as the build runs it: with overflow checks
\* abs() of i64::MIN panics (None), without them it wraps
ScoreOutcome(strategy, proposal, overflow_checks) ==
    IF overflow_checks /\ I64Min \in {proposal.amount_delta_minor, proposal.date_delta_days}
    THEN None
    ELSE Some(score(strategy, proposal))

Score(strategy, proposal, overflow_checks) ==
    scored' = Some([strategy |-> strategy, proposal |-> proposal,
                    outcome |-> ScoreOutcome(strategy, proposal, overflow_checks)])

(* impl ReconciliationSession: each operator returns the Result together   *)
(* with the working copy as the method leaves it, also when it fails       *)

Outcome(result, session) == [result |-> result, session |-> session]

\* lets every status through
ensure_mutable_any_status(session) == ReconOk(None)

ensure_mutable(session) ==
    IF session.status = "Closed"
    THEN ReconErr("InvalidTransition", "session " \o session.id \o " is closed")
    ELSE ReconOk(None)

Acceptable_pending_only(status) == status = "Pending"

\* matches!(candidate.status, Pending | PartiallyAccepted) in accept
Acceptable(status) == status \in {"Pending", "PartiallyAccepted"}

session_add_candidate(session, candidate) ==
    IF ensure_mutable(session).status # "Ok"
    THEN Outcome(ensure_mutable(session), session)
    ELSE Outcome(ReconOk(None),
                 [session EXCEPT !.candidates = Append(session.candidates, candidate)])

\* the for loop of accept: candidates before index i are already visited
RECURSIVE AcceptLoop(_, _, _, _)
AcceptLoop(session, candidate_id, i, accepted) ==
    IF i > Len(session.candidates)
    THEN IF IsSome(accepted)
         THEN Outcome(ReconOk(accepted[1]), [session EXCEPT !.status = "Closed"])
         ELSE Outcome(ReconErr("CandidateNotFound", candidate_id), session)
    ELSE LET candidate == session.candidates[i] IN
         IF candidate.id = candidate_id
         THEN IF ~Acceptable(candidate.status)
              THEN Outcome(ReconErr("InvalidTransition",
                                    "candidate " \o candidate_id \o " is not pending"),
                           session)
              ELSE LET updated == [candidate EXCEPT !.status = "Accepted",
                                                    !.write_off_reason = None]
                   IN  AcceptLoop([session EXCEPT !.candidates[i] = updated],
                                  candidate_id, i + 1, Some(updated))
         ELSE IF Acceptable(candidate.status)
         THEN AcceptLoop([session EXCEPT !.candidates[i].status = "Rejected"],
                         candidate_id, i + 1, accepted)
         ELSE AcceptLoop(session, candidate_id, i + 1, accepted)

session_accept(session, candidate_id) ==
    IF ensure_mutable(session).status # "Ok"
    THEN Outcome(ensure_mutable(session), session)
    ELSE AcceptLoop(session, candidate_id, 1, None)

\* index of the first candidate with the id, 0 if there is none
RECURSIVE Find(_, _, _)
Find(candidates, candidate_id, i) ==
    IF i > Len(candidates) THEN 0
    ELSE IF candidates[i].id = candidate_id THEN i
    ELSE Find(candidates, candidate_id, i + 1)

\* rejects a candidate whatever its status
session_reject_any_status(session, candidate_id) ==
    LET i == Find(session.candidates, candidate_id, 1) IN
    IF ensure_mutable(session).status # "Ok"
    THEN Outcome(ensure_mutable(session), session)
    ELSE IF i = 0
    THEN Outcome(ReconErr("CandidateNotFound", candidate_id), session)
    ELSE LET updated == [session EXCEPT !.candidates[i].status = "Rejected"]
         IN  Outcome(ReconOk(updated.candidates[i]), updated)

session_reject(session, candidate_id) ==
    LET i == Find(session.candidates, candidate_id, 1) IN
    IF ensure_mutable(session).status # "Ok"
    THEN Outcome(ensure_mutable(session), session)
    ELSE IF i = 0
    THEN Outcome(ReconErr("CandidateNotFound", candidate_id), session)
    ELSE IF session.candidates[i].status # "Pending"
    THEN Outcome(ReconErr("InvalidTransition",
                          "candidate " \o candidate_id \o " is not pending"), session)
    ELSE LET updated == [session EXCEPT !.candidates[i].status = "Rejected"]
         IN  Outcome(ReconOk(updated.candidates[i]), updated)

Contains(candidate_ids, id) == \E k \in 1..Len(candidate_ids) : candidate_ids[k] = id

\* the loop without the group_id check
RECURSIVE PartialAcceptLoop_any_group(_, _, _, _, _)
PartialAcceptLoop_any_group(session, group_id, candidate_ids, i, updated) ==
    IF i > Len(session.candidates)
    THEN IF updated = <<>>
         THEN Outcome(ReconErr("InvalidTransition",
                               "no pending candidates were found for group " \o group_id),
                      session)
         ELSE Outcome(ReconOk(updated), [session EXCEPT !.status = "PendingPartial"])
    ELSE LET candidate == session.candidates[i] IN
         IF Contains(candidate_ids, candidate.id)
         THEN IF candidate.status # "Pending"
              THEN Outcome(ReconErr("InvalidTransition",
                                    "candidate " \o candidate.id \o " is not pending"),
                           session)
              ELSE LET marked == [candidate EXCEPT !.status = "PartiallyAccepted"]
                   IN  PartialAcceptLoop_any_group(
                           [session EXCEPT !.candidates[i] = marked],
                           group_id, candidate_ids, i + 1, Append(updated, marked))
         ELSE PartialAcceptLoop_any_group(session, group_id, candidate_ids, i + 1, updated)

\* the for loop of partial_accept
RECURSIVE PartialAcceptLoop(_, _, _, _, _)
PartialAcceptLoop(session, group_id, candidate_ids, i, updated) ==
    IF i > Len(session.candidates)
    THEN IF updated = <<>>
         THEN Outcome(ReconErr("InvalidTransition",
                               "no pending candidates were found for group " \o group_id),
                      session)
         ELSE Outcome(ReconOk(updated), [session EXCEPT !.status = "PendingPartial"])
    ELSE LET candidate == session.candidates[i] IN
         IF Contains(candidate_ids, candidate.id)
         THEN IF candidate.group_id # Some(group_id)
              THEN Outcome(ReconErr("InvalidTransition",
                                    "candidate " \o candidate.id
                                        \o " does not belong to group " \o group_id),
                           session)
              ELSE IF candidate.status # "Pending"
              THEN Outcome(ReconErr("InvalidTransition",
                                    "candidate " \o candidate.id \o " is not pending"),
                           session)
              ELSE LET marked == [candidate EXCEPT !.status = "PartiallyAccepted"]
                   IN  PartialAcceptLoop([session EXCEPT !.candidates[i] = marked],
                                         group_id, candidate_ids, i + 1,
                                         Append(updated, marked))
         ELSE PartialAcceptLoop(session, group_id, candidate_ids, i + 1, updated)

partial_accept(session, group_id, candidate_ids) ==
    IF ensure_mutable(session).status # "Ok"
    THEN Outcome(ensure_mutable(session), session)
    ELSE IF candidate_ids = <<>>
    THEN Outcome(ReconErr("InvalidTransition",
                          "partial accept requires at least one candidate"), session)
    ELSE PartialAcceptLoop(session, group_id, candidate_ids, 1, <<>>)

\* writes a candidate off whatever its status
session_write_off_any_status(session, candidate_id, reason) ==
    LET i == Find(session.candidates, candidate_id, 1) IN
    IF ensure_mutable(session).status # "Ok"
    THEN Outcome(ensure_mutable(session), session)
    ELSE IF i = 0
    THEN Outcome(ReconErr("CandidateNotFound", candidate_id), session)
    ELSE LET updated == [session EXCEPT !.candidates[i].status = "WrittenOff",
                                        !.candidates[i].write_off_reason = Some(reason),
                                        !.status = "PendingPartial"]
         IN  Outcome(ReconOk(updated.candidates[i]), updated)

session_write_off(session, candidate_id, reason) ==
    LET i == Find(session.candidates, candidate_id, 1) IN
    IF ensure_mutable(session).status # "Ok"
    THEN Outcome(ensure_mutable(session), session)
    ELSE IF i = 0
    THEN Outcome(ReconErr("CandidateNotFound", candidate_id), session)
    ELSE IF session.candidates[i].status \notin {"Pending", "PartiallyAccepted", "Rejected"}
    THEN Outcome(ReconErr("InvalidTransition",
                          "candidate " \o candidate_id \o " cannot be written off"),
                 session)
    ELSE LET updated == [session EXCEPT !.candidates[i].status = "WrittenOff",
                                        !.candidates[i].write_off_reason = Some(reason),
                                        !.status = "PendingPartial"]
         IN  Outcome(ReconOk(updated.candidates[i]), updated)

\* resets the candidates of an Open session as well
session_reopen_always_resets(session) ==
    Outcome(ReconOk(None),
            [session EXCEPT
                !.candidates = [i \in 1..Len(session.candidates) |->
                                   [session.candidates[i] EXCEPT
                                       !.status = "Pending",
                                       !.write_off_reason = None]],
                !.status = "Open"])

\* resets the statuses but keeps the write-off reasons
session_reopen_keeps_reason(session) ==
    IF session.status = "Open"
    THEN Outcome(ReconOk(None), session)
    ELSE Outcome(ReconOk(None),
                 [session EXCEPT
                     !.candidates = [i \in 1..Len(session.candidates) |->
                                        [session.candidates[i] EXCEPT !.status = "Pending"]],
                     !.status = "Open"])

session_reopen(session) ==
    IF session.status = "Open"
    THEN Outcome(ReconOk(None), session)
    ELSE Outcome(ReconOk(None),
                 [session EXCEPT
                     !.candidates = [i \in 1..Len(session.candidates) |->
                                        [session.candidates[i] EXCEPT
                                            !.status = "Pending",
                                            !.write_off_reason = None]],
                     !.status = "Open"])

(* InMemoryReconciliationService, one call at a time                       *)

\* the ReconciliationAuditEvent a call hands to emit_audit after it succeeded;
\* every registered hook records it
EmittedEvent(op, request, result) ==
    IF result.status # "Ok" THEN None
    ELSE CASE op = "create_session" ->
                 Some([session_id |-> result.value.id, candidate_id |-> None,
                       action |-> "SessionCreated", note |-> None])
           [] op = "add_candidate" ->
                 Some([session_id |-> request.session_id,
                       candidate_id |-> Some(result.value.id),
                       action |-> "CandidateAdded", note |-> None])
           [] op = "accept" ->
                 Some([session_id |-> request.session_id,
                       candidate_id |-> Some(request.candidate_id),
                       action |-> "CandidateAccepted", note |-> None])
           [] op = "reject" ->
                 Some([session_id |-> request.session_id,
                       candidate_id |-> Some(request.candidate_id),
                       action |-> "CandidateRejected", note |-> None])
           [] op = "accept_partial" ->
                 Some([session_id |-> request.session_id,
                       candidate_id |-> IF request.candidate_ids = <<>> THEN None
                                        ELSE Some(Head(request.candidate_ids)),
                       action |-> "CandidatePartiallyAccepted",
                       note |-> Some("group " \o request.group_id)])
           [] op = "write_off" ->
                 Some([session_id |-> request.session_id,
                       candidate_id |-> Some(request.candidate_id),
                       action |-> "CandidateWrittenOff", note |-> Some(request.reason)])
           [] op = "reopen" ->
                 Some([session_id |-> request.session_id, candidate_id |-> None,
                       action |-> "SessionReopened", note |-> None])
           [] OTHER -> None

ReconRespond(op, request, fetched, result) ==
    [op |-> op, request |-> request, fetched |-> fetched, result |-> result,
     emitted |-> EmittedEvent(op, request, result)]

\* saves the working copy also when the mutator failed
StoreAfter_saves_failures(session_id, outcome) ==
    [sessions EXCEPT ![session_id] = outcome.session]

\* the store after modify_session ran the mutator: `?` returns before
\* save_session when the mutator failed
StoreAfter(session_id, outcome) ==
    IF outcome.result.status = "Ok"
    THEN [sessions EXCEPT ![session_id] = outcome.session]
    ELSE sessions

\* modify_session: get_session, the mutator on the private copy, save_session
ModifySession(op, request, Mutator(_)) ==
    IF request.session_id \notin DOMAIN sessions
    THEN /\ recon_response' = ReconRespond(op, request, None,
                                           ReconErr("SessionNotFound", request.session_id))
         /\ UNCHANGED sessions
    ELSE LET fetched == sessions[request.session_id]
             outcome == Mutator(fetched)
         IN  /\ recon_response' = ReconRespond(op, request, Some(fetched), outcome.result)
             /\ sessions' = StoreAfter(request.session_id, outcome)

CreateSession(request) ==
    LET session == [id |-> "sess-" \o ToString(session_seq + 1),
                    company_id |-> request.company_id,
                    status |-> "Open",
                    candidates |-> <<>>]
    IN  /\ session_seq' = session_seq + 1
        /\ sessions' = Put(sessions, session.id, session)
        /\ recon_response' = ReconRespond("create_session", request, None, ReconOk(session))
        /\ UNCHANGED candidate_seq

NewCandidate(proposal) ==
    [id |-> "cand-" \o ToString(candidate_seq + 1),
     transaction_id |-> proposal.transaction_id,
     journal_entry_id |-> proposal.journal_entry_id,
     score |-> score(DefaultStrategy, proposal),
     status |-> "Pending",
     group_id |-> proposal.group_id,
     write_off_reason |-> None]

AddCandidate(request) ==
    LET candidate == NewCandidate(request.proposal)
        Mutator(session) ==
            LET outcome == session_add_candidate(session, candidate)
            IN  Outcome(IF outcome.result.status = "Ok" THEN ReconOk(candidate)
                        ELSE outcome.result,
                        outcome.session)
    IN  /\ candidate_seq' = candidate_seq + 1
        /\ ModifySession("add_candidate", request, Mutator)
        /\ UNCHANGED session_seq

Accept(request) ==
    LET Mutator(session) == session_accept(session, request.candidate_id)
    IN  /\ ModifySession("accept", request, Mutator)
        /\ UNCHANGED <<session_seq, candidate_seq>>

Reject(request) ==
    LET Mutator(session) == session_reject(session, request.candidate_id)
    IN  /\ ModifySession("reject", request, Mutator)
        /\ UNCHANGED <<session_seq, candidate_seq>>

AcceptPartial(request) ==
    LET Mutator(session) == partial_accept(session, request.group_id, request.candidate_ids)
    IN  /\ ModifySession("accept_partial", request, Mutator)
        /\ UNCHANGED <<session_seq, candidate_seq>>

WriteOff(request) ==
    LET Mutator(session) == session_write_off(session, request.candidate_id, request.reason)
    IN  /\ ModifySession("write_off", request, Mutator)
        /\ UNCHANGED <<session_seq, candidate_seq>>

Reopen(request) ==
    LET Mutator(session) ==
            LET outcome == session_reopen(session)
            IN  Outcome(ReconOk(outcome.session), outcome.session)
    IN  /\ ModifySession("reopen", request, Mutator)
        /\ UNCHANGED <<session_seq, candidate_seq>>

GetSession(request) ==
    /\ recon_response' =
         IF request.session_id \in DOMAIN sessions
         THEN ReconRespond("session", request, Some(sessions[request.session_id]),
                           ReconOk(sessions[request.session_id]))
         ELSE ReconRespond("session", request, None,
                           ReconErr("SessionNotFound", request.session_id))
    /\ UNCHANGED <<sessions, session_seq, candidate_seq>>

ReconInit ==
    /\ sessions = EmptyMap
    /\ session_seq = 0
    /\ candidate_seq = 0
    /\ recon_response = ReconRespond("new", None, None, ReconOk(None))

(* modify_session executed by concurrent tasks: get_session and            *)
(* save_session each take the store's RwLock for themselves, the mutator   *)
(* runs in between on the task's own copy                                  *)

IdleReconCall ==
    [pc |-> "idle", op |-> "", request |-> None, copy |-> None, candidate |-> None,
     result |-> ReconOk(None)]

\* the closure each service method passes to modify_session
CallMutator(call, session) ==
    CASE call.op = "accept" -> session_accept(session, call.request.candidate_id)
      [] call.op = "reject" -> session_reject(session, call.request.candidate_id)
      [] call.op = "add_candidate" ->
            LET outcome == session_add_candidate(session, call.candidate[1])
            IN  Outcome(IF outcome.result.status = "Ok" THEN ReconOk(call.candidate[1])
                        ELSE outcome.result,
                        outcome.session)
      [] call.op = "accept_partial" ->
            partial_accept(session, call.request.group_id, call.request.candidate_ids)
      [] call.op = "write_off" ->
            session_write_off(session, call.request.candidate_id, call.request.reason)
      [] call.op = "reopen" ->
            LET outcome == session_reopen(session)
            IN  Outcome(ReconOk(outcome.session), outcome.session)

\* let mut session = self.store.get_session(session_id)?;
FetchSession(task, op, request) ==
    /\ recon_calls[task].pc = "idle"
    /\ recon_calls' =
         [recon_calls EXCEPT ![task] =
            IF request.session_id \notin DOMAIN sessions
            THEN [IdleReconCall EXCEPT
                     !.pc = "done", !.op = op, !.request = request,
                     !.result = ReconErr("SessionNotFound", request.session_id)]
            ELSE [IdleReconCall EXCEPT
                     !.pc = "fetched", !.op = op, !.request = request,
                     !.copy = Some(sessions[request.session_id]),
                     !.candidate = IF op = "add_candidate"
                                   THEN Some(NewCandidate(request.proposal))
                                   ELSE None]]
    /\ candidate_seq' = IF op = "add_candidate" THEN candidate_seq + 1 ELSE candidate_seq
    /\ UNCHANGED <<sessions, session_seq, recon_response>>

\* a mutator that runs on the session as stored at the time of the save
WorkingCopy_stored(task) == sessions[recon_calls[task].request.session_id]

\* the session the mutator runs on: the task's copy from get_session
WorkingCopy(task) == recon_calls[task].copy[1]

\* let result = mutator(&mut session)?; self.store.save_session(&session)?;
SaveSession(task) ==
    /\ recon_calls[task].pc = "fetched"
    /\ LET call == recon_calls[task]
           outcome == CallMutator(call, WorkingCopy(task))
       IN  /\ recon_calls' = [recon_calls EXCEPT ![task].pc = "done",
                                                 ![task].result = outcome.result]
           /\ sessions' = IF outcome.result.status = "Ok"
                          THEN [sessions EXCEPT ![call.request.session_id] = outcome.session]
                          ELSE sessions
    /\ UNCHANGED <<session_seq, candidate_seq, recon_response>>


\* the hooks a caller may register
Hooks == {"h1", "h2"}

\* hooks.push(hook)
RegisterAuditHook(hook) ==
    /\ audit_hooks' = Append(audit_hooks, hook)
    /\ UNCHANGED hook_log

\* number of times the hook stands in audit_hooks
Registrations(hook) ==
    Cardinality({i \in 1..Len(audit_hooks) : audit_hooks[i] = hook})

\* calls the hook registered first and no other
emit_audit_first_hook(event) ==
    hook_log' = [hook \in Hooks |->
                    IF audit_hooks # <<>> /\ audit_hooks[1] = hook
                    THEN Append(hook_log[hook], event)
                    ELSE hook_log[hook]]

\* emit_audit: hook.record(&event) for every element of audit_hooks
emit_audit(event) ==
    hook_log' = [hook \in Hooks |->
                    hook_log[hook] \o [i \in 1..Registrations(hook) |-> event]]

\* create_session up to store.create_session
StoreCreateSession(task, request) ==
    LET session == [id |-> "sess-" \o ToString(session_seq + 1),
                    company_id |-> request.company_id,
                    status |-> "Open",
                    candidates |-> <<>>]
    IN  /\ recon_calls[task].pc = "idle"
        /\ session_seq' = session_seq + 1
        /\ sessions' = Put(sessions, session.id, session)
        /\ recon_calls' = [recon_calls EXCEPT ![task] =
               [IdleReconCall EXCEPT !.pc = "done", !.op = "create_session",
                                     !.request = request, !.result = ReconOk(session)]]
        /\ UNCHANGED <<candidate_seq, recon_response>>

\* the rest of a service method: the error leaves through `?`, the success
\* goes through emit_audit, and the call returns
ReturnCall(task) ==
    LET call == recon_calls[task]
        event == EmittedEvent(call.op, call.request, call.result)
    IN  /\ call.pc = "done"
        /\ IF IsSome(event) THEN emit_audit(event[1]) ELSE UNCHANGED hook_log
        /\ recon_response' = ReconRespond(call.op, call.request, call.copy, call.result)
        /\ recon_calls' = [recon_calls EXCEPT ![task] = IdleReconCall]
        /\ UNCHANGED <<sessions, session_seq, candidate_seq, audit_hooks>>
----------------------------------------------------------------------------
(* Requests                                                                *)

Tenant(company_id) == [tenant_id |-> company_id, user_id |-> "user-1"]

Account(id, company_id, code, parent, is_summary) ==
    [id |-> id, company_id |-> company_id, code |-> code,
     parent_account_id |-> parent, is_summary |-> is_summary, is_active |-> TRUE]

Cash1 == Account("acc-cash-1", "co-1", "1000", None, FALSE)
Assets1 == Account("acc-assets-1", "co-1", "1", None, TRUE)
Cash2 == Account("acc-cash-2", "co-2", "1000", None, FALSE)

Line(id, account_id, side, amount_minor, currency, functional_amount_minor, exchange_rate) ==
    [id |-> id, account_id |-> account_id, side |-> side,
     amount_minor |-> amount_minor, currency |-> currency,
     functional_amount_minor |-> functional_amount_minor,
     functional_currency |-> USD,
     exchange_rate |-> exchange_rate, memo |-> None]

EcbRate == [base |-> EUR, quote |-> USD, rate |-> 10753, source |-> Some("ECB")]

\* USD 125.00 debit / credit on one account
Balanced(account_id) ==
    << Line("ln-1", account_id, "Debit", 12500, USD, 12500, None),
       Line("ln-2", account_id, "Credit", 12500, USD, 12500, None) >>

\* three lines: EUR 93.00 at 1.0753 and USD 25.00 against USD 125.00
BalancedFx(account_id) ==
    << Line("ln-1", account_id, "Debit", 9300, EUR, 10000, Some(EcbRate)),
       Line("ln-2", account_id, "Debit", 2500, USD, 2500, None),
       Line("ln-3", account_id, "Credit", 12500, USD, 12500, None) >>

Unbalanced(account_id) ==
    << Line("ln-1", account_id, "Debit", 12500, USD, 12500, None),
       Line("ln-2", account_id, "Credit", 12000, USD, 12000, None) >>

\* EUR 93.00 worth USD 100.00 against USD 93.00: the transactional amounts
\* agree, the functional amounts do not
UnbalancedFx(account_id) ==
    << Line("ln-1", account_id, "Debit", 9300, EUR, 10000, Some(EcbRate)),
       Line("ln-2", account_id, "Credit", 9300, USD, 9300, None) >>

\* balanced, but the EUR line carries no exchange rate
NoProvenance(account_id) ==
    << Line("ln-1", account_id, "Debit", 9300, EUR, 10000, None),
       Line("ln-2", account_id, "Credit", 10000, USD, 10000, None) >>

Entry(id, journal_id, lines) ==
    [id |-> id, journal_id |-> journal_id, status |-> "Draft",
     reconciliation_status |-> [kind |-> "Unreconciled", ref |-> ""],
     lines |-> lines, origin |-> "Manual", memo |-> None,
     reverses_entry_id |-> None, reversed_by_entry_id |-> None]

\* an entry replayed with reconciliation and reversal links already set
Forged(entry) ==
    [entry EXCEPT !.status = "Posted",
                  !.reconciliation_status = [kind |-> "Reconciled", ref |-> "sess-1"],
                  !.reverses_entry_id = Some("e0"),
                  !.reversed_by_entry_id = Some("e9")]

PostRequest(entry, mode) == [entry |-> entry, tenant |-> Tenant("co-1"), mode |-> mode]

Modes == {"DryRun", "Commit"}

PeriodActions == {"SoftClose", "Close", "ReopenSoft", "ReopenFull"}

Period(fiscal_year, period) == [fiscal_year |-> fiscal_year, period |-> period]

LockRequest(company_id, journal_id, period, action, approval_reference) ==
    [journal_id |-> journal_id, period |-> period, action |-> action,
     approval_reference |-> approval_reference, tenant |-> Tenant(company_id)]

EnsureRequest(company_id, journal_id, period) ==
    [journal_id |-> journal_id, period |-> period, tenant |-> Tenant(company_id)]

ReverseRequest(entry_id) ==
    [entry_id |-> entry_id, reason |-> "requested", tenant |-> Tenant("co-1")]

AuditFilter(company_id, entity_id, cursor, limit) ==
    [entity_id |-> entity_id, limit |-> limit, cursor |-> cursor,
     tenant |-> Tenant(company_id)]

----------------------------------------------------------------------------
(* Specifications.  The ledger after InMemoryLedgerService::new() is empty *)

MaxCompanies == 2
MaxAudit == 2

TaskInit ==
    /\ state_mutex = None
    /\ ledger_calls = [task \in Tasks |-> IdleLedgerCall]
    /\ recon_calls = [task \in Tasks |-> IdleReconCall]

LedgerInit ==
    /\ company_seq = 0
    /\ companies = EmptyMap
    /\ accounts = EmptyMap
    /\ account_codes = EmptyMap
    /\ journals = EmptyMap
    /\ periods = EmptyMap
    /\ entries = EmptyMap
    /\ entry_companies = EmptyMap
    /\ audit_events = <<>>
    /\ audit_seq = 0
    /\ response = Respond("new", None, Ok(None))

\* with_store: audit_hooks is RwLock::new(Vec::new()); no hook was called yet
HookInit ==
    /\ audit_hooks = <<>>
    /\ hook_log = [hook \in Hooks |-> <<>>]

\* the entry a caller builds before it posts it
CallerInit ==
    /\ held_entry = Entry("e1", "jnl-gl", Balanced("acc-cash-1"))
    /\ scored = None

Init == LedgerInit /\ ReconInit /\ TaskInit /\ HookInit /\ CallerInit

\* a call may run while the audit log has room for the events it appends
Room(result, events, cap) == result.status = "Ok" => Len(audit_events) + events <= cap

CompanyRequests == {[base_currency |-> USD, tenant |-> Tenant("co-0")]}

AccountRequests == {[account |-> a, tenant |-> Tenant(a.company_id)] : a \in {Cash1, Assets1, Cash2}}

PostRequests ==
    {PostRequest(Entry("e1", "jnl-gl", lines), mode) :
        lines \in {Balanced("acc-cash-1"), Unbalanced("acc-cash-1"),
                   Balanced("acc-cash-2"), Balanced("acc-assets-1"), <<>>},
        mode \in Modes}
    \cup {PostRequest(Forged(Entry("e1", "jnl-gl", Balanced("acc-cash-1"))), mode) :
             mode \in Modes}

LockRequests ==
    {LockRequest("co-1", "jnl-gl", Period(2024, 1), a, None) : a \in PeriodActions}
        \cup {LockRequest("co-2", "jnl-gl", Period(2024, 1), "Close", None)}

EnsureRequests == {EnsureRequest("co-1", "jnl-gl", Period(2024, 1))}

ReverseRequests == {ReverseRequest(id) : id \in DOMAIN entries \cup {"je-missing"}}

AuditFilters == {AuditFilter("co-1", None, None, None)}

Next ==
    \/ /\ UNCHANGED <<reconVars, taskVars, hookVars, callerVars>>
       /\ \E r \in CompanyRequests : company_seq < MaxCompanies /\ CreateCompany(r)
    \/ /\ UNCHANGED <<reconVars, taskVars, hookVars, callerVars>>
       /\ \E r \in AccountRequests : UpsertAccount(r)
    \/ /\ UNCHANGED <<reconVars, taskVars, hookVars, callerVars>>
       /\ \E r \in PostRequests :
                /\ r.mode = "Commit" => Room(PostEntryResult(r), 1, MaxAudit)
                /\ PostEntry(r)
    \/ /\ UNCHANGED <<reconVars, taskVars, hookVars, callerVars>>
       /\ \E r \in ReverseRequests :
                Room(ReverseEntryResult(r), 2, MaxAudit) /\ ReverseEntry(r)
    \/ /\ UNCHANGED <<reconVars, taskVars, hookVars, callerVars>>
       /\ \E r \in LockRequests : Room(LockPeriodResult(r), 1, MaxAudit) /\ LockPeriod(r)
    \/ /\ UNCHANGED <<reconVars, taskVars, hookVars, callerVars>>
       /\ \E r \in EnsureRequests : EnsurePeriod(r)
    \/ /\ UNCHANGED <<reconVars, taskVars, hookVars, callerVars>>
       /\ \E f \in AuditFilters : ListAuditTrail(f)

Spec == Init /\ [][Next]_vars

----------------------------------------------------------------------------
(* The same service driven by the requests of the reversal flow: one       *)
(* entry id posted, reversed and posted again                              *)

MaxAuditReversal == 6

ReversalAccountRequests == {[account |-> Cash1, tenant |-> Tenant("co-1")]}

ReversalPostRequests ==
    {PostRequest(Entry("e1", "jnl-gl", lines), "Commit") :
        lines \in {Balanced("acc-cash-1"), BalancedFx("acc-cash-1"),
                   Unbalanced("acc-cash-1"), UnbalancedFx("acc-cash-1")}}
    \cup {PostRequest(Entry("e1", "jnl-gl", Balanced("acc-cash-1")), "DryRun"),
          PostRequest(Entry("e1-rev-3", "jnl-gl", Balanced("acc-cash-1")), "Commit")}

ReversalLockRequests == {LockRequest("co-1", "jnl-gl", Period(2024, 1), "Close", None)}

ReversalNext ==
    \/ /\ UNCHANGED <<reconVars, taskVars, hookVars, callerVars>>
       /\ \E r \in CompanyRequests : company_seq < MaxCompanies /\ CreateCompany(r)
    \/ /\ UNCHANGED <<reconVars, taskVars, hookVars, callerVars>>
       /\ \E r \in ReversalAccountRequests : UpsertAccount(r)
    \/ /\ UNCHANGED <<reconVars, taskVars, hookVars, callerVars>>
       /\ \E r \in ReversalPostRequests :
                /\ r.mode = "Commit" => Room(PostEntryResult(r), 1, MaxAuditReversal)
                /\ PostEntry(r)
    \/ /\ UNCHANGED <<reconVars, taskVars, hookVars, callerVars>>
       /\ \E r \in ReverseRequests :
                Room(ReverseEntryResult(r), 2, MaxAuditReversal) /\ ReverseEntry(r)
    \/ /\ UNCHANGED <<reconVars, taskVars, hookVars, callerVars>>
       /\ \E r \in ReversalLockRequests :
                Room(LockPeriodResult(r), 1, MaxAuditReversal) /\ LockPeriod(r)
    \/ /\ UNCHANGED <<reconVars, taskVars, hookVars, callerVars>>
       /\ \E r \in EnsureRequests : EnsurePeriod(r)
    \/ /\ UNCHANGED <<reconVars, taskVars, hookVars, callerVars>>
       /\ \E f \in AuditFilters : ListAuditTrail(f)

ReversalSpec == Init /\ [][ReversalNext]_vars

----------------------------------------------------------------------------
(* The same service driven by two tenants that post, lock and read the     *)
(* audit trail                                                             *)

MaxAuditTrail == 3

TrailAccountRequests ==
    {[account |-> a, tenant |-> Tenant(a.company_id)] : a \in {Cash1, Cash2}}

TrailPostRequests ==
    { PostRequest(Entry("e1", "jnl-gl", Balanced("acc-cash-1")), "Commit"),
      PostRequest(Entry("e2", "jnl-gl", Balanced("acc-cash-2")), "Commit"),
      PostRequest(Entry("e2", "jnl-gl", Balanced("acc-cash-2")), "DryRun") }

TrailLockRequests ==
    { LockRequest("co-1", "jnl-gl", Period(2024, 1), "Close", None),
      LockRequest("co-2", "jnl-gl", Period(2024, 1), "SoftClose", Some("apr-7")) }

TrailFilters ==
    {AuditFilter(c, entity, cursor, limit) :
        c \in {"co-1", "co-2"},
        entity \in {None, Some("e1"), Some("jnl-gl")},
        cursor \in {None, Some("audit-1"), Some("audit-2")},
        limit \in {None, Some(1)}}

TrailNext ==
    \/ /\ UNCHANGED <<reconVars, taskVars, hookVars, callerVars>>
       /\ \E r \in CompanyRequests : company_seq < MaxCompanies /\ CreateCompany(r)
    \/ /\ UNCHANGED <<reconVars, taskVars, hookVars, callerVars>>
       /\ \E r \in TrailAccountRequests : UpsertAccount(r)
    \/ /\ UNCHANGED <<reconVars, taskVars, hookVars, callerVars>>
       /\ \E r \in TrailPostRequests :
                /\ r.mode = "Commit" => Room(PostEntryResult(r), 1, MaxAuditTrail)
                /\ PostEntry(r)
    \/ /\ UNCHANGED <<reconVars, taskVars, hookVars, callerVars>>
       /\ \E r \in ReverseRequests :
                Room(ReverseEntryResult(r), 2, MaxAuditTrail) /\ ReverseEntry(r)
    \/ /\ UNCHANGED <<reconVars, taskVars, hookVars, callerVars>>
       /\ \E r \in TrailLockRequests :
                Room(LockPeriodResult(r), 1, MaxAuditTrail) /\ LockPeriod(r)
    \/ /\ UNCHANGED <<reconVars, taskVars, hookVars, callerVars>>
       /\ \E r \in EnsureRequests : EnsurePeriod(r)
    \/ /\ UNCHANGED <<reconVars, taskVars, hookVars, callerVars>>
       /\ \E f \in TrailFilters : ListAuditTrail(f)

TrailSpec == Init /\ [][TrailNext]_vars

----------------------------------------------------------------------------
(* The reconciliation service driven one call at a time                    *)

MaxSessions == 1
MaxCandidates == 3

Proposal(group_id) ==
    [transaction_id |-> "txn-1", journal_entry_id |-> "je-1",
     amount_delta_minor |-> 50, date_delta_days |-> 1,
     transaction_description |-> <<"Rent", "invoice">>,
     journal_description |-> <<"rent">>,
     group_id |-> group_id]

\* the calls that change a session address the first one; the others are read
SessionIds == {"sess-1"}

StoredSessionIds == {"sess-" \o ToString(n) : n \in 1..MaxSessions}

\* only the first proposal of a run may come without a group
ProposalGroups == IF candidate_seq = 0 THEN {None, Some("g1")} ELSE {Some("g1")}

CandidateId(n) == "cand-" \o ToString(n)

IssuedIds == {CandidateId(n) : n \in 1..MaxCandidates}

\* cand-0 is never issued
CandidateIds == {CandidateId(n) : n \in 0..MaxCandidates}

\* the id lists of accept_partial: empty, one id, two consecutive ids
CandidateIdLists ==
    {<<>>} \cup {<<a>> : a \in CandidateIds}
           \cup {<<CandidateId(n), CandidateId(n + 1)>> : n \in 0..(MaxCandidates - 1)}

\* group g1 with every id list, group g2 with the first candidate
PartialRequests ==
    {<<"g1", ids>> : ids \in CandidateIdLists} \cup {<<"g2", <<CandidateId(1)>> >>}

ReconNext ==
    \/ /\ UNCHANGED <<ledgerVars, taskVars, hookVars, callerVars>>
       /\ \E c \in {"comp-1"} :
                session_seq < MaxSessions /\ CreateSession([company_id |-> c])
    \/ /\ UNCHANGED <<ledgerVars, taskVars, hookVars, callerVars>>
       /\ \E s \in SessionIds, g \in ProposalGroups :
                /\ candidate_seq < MaxCandidates
                /\ AddCandidate([session_id |-> s, proposal |-> Proposal(g)])
    \/ /\ UNCHANGED <<ledgerVars, taskVars, hookVars, callerVars>>
       /\ \E s \in SessionIds, c \in IssuedIds :
                Accept([session_id |-> s, candidate_id |-> c])
    \/ /\ UNCHANGED <<ledgerVars, taskVars, hookVars, callerVars>>
       /\ \E s \in SessionIds, c \in IssuedIds :
                Reject([session_id |-> s, candidate_id |-> c])
    \/ /\ UNCHANGED <<ledgerVars, taskVars, hookVars, callerVars>>
       /\ \E s \in SessionIds, r \in PartialRequests :
                AcceptPartial([session_id |-> s, group_id |-> r[1], candidate_ids |-> r[2]])
    \/ /\ UNCHANGED <<ledgerVars, taskVars, hookVars, callerVars>>
       /\ \E s \in SessionIds, c \in IssuedIds :
                WriteOff([session_id |-> s, candidate_id |-> c, reason |-> "timing difference"])
    \/ /\ UNCHANGED <<ledgerVars, taskVars, hookVars, callerVars>>
       /\ \E s \in SessionIds : Reopen([session_id |-> s])
    \/ /\ UNCHANGED <<ledgerVars, taskVars, hookVars, callerVars>>
       /\ \E s \in StoredSessionIds \cup {"sess-0"} : GetSession([session_id |-> s])

ReconSpec == Init /\ [][ReconNext]_vars

----------------------------------------------------------------------------
(* Write-offs asked of the service itself and through the facade           *)
(* (codex-accounting-api/src/reconciliation.rs); reasons are the           *)
(* characters typed                                                        *)

ReasonTexts == {<<>>, <<" ", " ">>, <<"f", "x">>}

\* ReconciliationFacade::write_off_candidate: bails on a blank approval
\* reference, otherwise hands it to the service as the reason
WriteOffCandidate(request) ==
    IF Trim(request.reason) = <<>>
    THEN /\ recon_response' =
               ReconRespond("write_off_candidate", request, None,
                            ReconErr("Other",
                                     "approval reference must be provided for write-offs"))
         /\ UNCHANGED <<sessions, session_seq, candidate_seq>>
    ELSE WriteOff(request)

WriteOffNext ==
    \/ /\ UNCHANGED <<ledgerVars, taskVars, hookVars, callerVars>>
       /\ \E c \in {"comp-1"} :
                session_seq < MaxSessions /\ CreateSession([company_id |-> c])
    \/ /\ UNCHANGED <<ledgerVars, taskVars, hookVars, callerVars>>
       /\ \E s \in SessionIds :
                /\ candidate_seq < MaxCandidates
                /\ AddCandidate([session_id |-> s, proposal |-> Proposal(None)])
    \/ /\ UNCHANGED <<ledgerVars, taskVars, hookVars, callerVars>>
       /\ \E s \in SessionIds, c \in IssuedIds :
                Reject([session_id |-> s, candidate_id |-> c])
    \/ /\ UNCHANGED <<ledgerVars, taskVars, hookVars, callerVars>>
       /\ \E s \in SessionIds, c \in IssuedIds, text \in ReasonTexts :
                WriteOff([session_id |-> s, candidate_id |-> c, reason |-> text])
    \/ /\ UNCHANGED <<ledgerVars, taskVars, hookVars, callerVars>>
       /\ \E s \in SessionIds, c \in IssuedIds, text \in ReasonTexts :
                WriteOffCandidate([session_id |-> s, candidate_id |-> c, reason |-> text])
    \/ /\ UNCHANGED <<ledgerVars, taskVars, hookVars, callerVars>>
       /\ \E s \in SessionIds : Reopen([session_id |-> s])

WriteOffSpec == Init /\ [][WriteOffNext]_vars

----------------------------------------------------------------------------
(* One company whose journal is locked, reopened and asked for two periods *)

MaxAuditPeriod == 3

PeriodPostRequests ==
    {PostRequest(Entry("e1", "jnl-gl", Balanced("acc-cash-1")), mode) : mode \in Modes}

PeriodLockRequests ==
    {LockRequest("co-1", "jnl-gl", Period(2024, 1), a, None) : a \in PeriodActions}
        \cup {LockRequest("co-1", "jnl-gl", Period(2024, 2), a, Some("apr-7")) :
                 a \in {"Close", "ReopenFull"}}
        \cup {LockRequest("co-1", "jnl-missing", Period(2024, 1), "Close", None)}

PeriodEnsureRequests ==
    {EnsureRequest("co-1", "jnl-gl", Period(2024, p)) : p \in {1, 2}}
        \cup {EnsureRequest("co-1", "jnl-missing", Period(2024, 1)),
              EnsureRequest("co-9", "jnl-gl", Period(2024, 1))}

PeriodNext ==
    \/ /\ UNCHANGED <<reconVars, taskVars, hookVars, callerVars>>
       /\ \E r \in CompanyRequests : companies = EmptyMap /\ CreateCompany(r)
    \/ /\ UNCHANGED <<reconVars, taskVars, hookVars, callerVars>>
       /\ \E r \in ReversalAccountRequests : UpsertAccount(r)
    \/ /\ UNCHANGED <<reconVars, taskVars, hookVars, callerVars>>
       /\ \E r \in PeriodPostRequests :
                /\ r.mode = "Commit" => Room(PostEntryResult(r), 1, MaxAuditPeriod)
                /\ PostEntry(r)
    \/ /\ UNCHANGED <<reconVars, taskVars, hookVars, callerVars>>
       /\ \E r \in PeriodLockRequests :
                Room(LockPeriodResult(r), 1, MaxAuditPeriod) /\ LockPeriod(r)
    \/ /\ UNCHANGED <<reconVars, taskVars, hookVars, callerVars>>
       /\ \E r \in PeriodEnsureRequests : EnsurePeriod(r)

PeriodSpec == Init /\ [][PeriodNext]_vars

----------------------------------------------------------------------------
(* Two companies whose tenants lock two periods of their own journal       *)

MaxAuditGate == 3

GateAccountRequests ==
    {[account |-> a, tenant |-> Tenant(a.company_id)] : a \in {Cash1, Cash2}}

GatePostRequests ==
    {PostRequest(Entry("e1", "jnl-gl", Balanced("acc-cash-1")), mode) : mode \in Modes}
        \cup {[PostRequest(Entry("e2", "jnl-gl", Balanced("acc-cash-2")), "DryRun")
                  EXCEPT !.tenant = Tenant("co-2")]}

GateLockRequests ==
    {LockRequest("co-1", "jnl-gl", Period(2024, 1), a, None) : a \in {"SoftClose", "Close"}}
        \cup {LockRequest("co-1", "jnl-gl", Period(2024, 2), "ReopenFull", None),
              LockRequest("co-2", "jnl-gl", Period(2024, 2), "Close", None)}

GateEnsureRequests ==
    {EnsureRequest("co-1", "jnl-gl", Period(2024, p)) : p \in {1, 2}}
        \cup {EnsureRequest("co-2", "jnl-gl", Period(2024, 1))}

GateNext ==
    \/ /\ UNCHANGED <<reconVars, taskVars, hookVars, callerVars>>
       /\ \E r \in CompanyRequests : company_seq < 2 /\ CreateCompany(r)
    \/ /\ UNCHANGED <<reconVars, taskVars, hookVars, callerVars>>
       /\ \E r \in GateAccountRequests : UpsertAccount(r)
    \/ /\ UNCHANGED <<reconVars, taskVars, hookVars, callerVars>>
       /\ \E r \in GatePostRequests :
                /\ r.mode = "Commit" => Room(PostEntryResult(r), 1, MaxAuditGate)
                /\ PostEntry(r)
    \/ /\ UNCHANGED <<reconVars, taskVars, hookVars, callerVars>>
       /\ \E r \in GateLockRequests :
                Room(LockPeriodResult(r), 1, MaxAuditGate) /\ LockPeriod(r)
    \/ /\ UNCHANGED <<reconVars, taskVars, hookVars, callerVars>>
       /\ \E r \in GateEnsureRequests : EnsurePeriod(r)

GateSpec == Init /\ [][GateNext]_vars

----------------------------------------------------------------------------
(* The chart of accounts of two companies, built one account at a time by  *)
(* upsert_account and in batches by seed_chart                             *)

Template(code, parent_code, is_summary) ==
    [code |-> code, parent_code |-> parent_code, is_summary |-> is_summary]

SeedRequest(company_id, templates) ==
    [company_id |-> company_id, accounts |-> templates, tenant |-> Tenant(company_id)]

ChartAccounts ==
    {Assets1, Cash1, Cash2,
     Account("acc-bank-1", "co-1", "1000", None, FALSE),
     Account("acc-bank-1", "co-1", "1010", Some("acc-assets-1"), FALSE),
     Account("acc-petty-1", "co-1", "1020", Some("acc-cash-1"), FALSE),
     Account("acc-petty-1", "co-1", "1030", Some("acc-missing"), FALSE),
     Account("acc-co-1-2000", "co-1", "2001", None, FALSE),
     Account("acc-sub-2", "co-2", "1100", Some("acc-assets-1"), FALSE)}

ChartAccountRequests ==
    {[account |-> a, tenant |-> Tenant(a.company_id)] : a \in ChartAccounts}

ChartBatches ==
    {<<Template("1", None, TRUE), Template("1000", Some("1"), FALSE)>>,
     <<Template("2000", None, FALSE), Template("2000", None, TRUE)>>,
     <<Template("2000", None, FALSE), Template("2010", Some("2000"), FALSE)>>,
     <<Template("3000", Some("9"), FALSE), Template("1000", None, FALSE)>>,
     <<Template("1010", Some("1000"), FALSE)>>,
     <<Template("1000", Some("9"), FALSE)>>}

ChartSeedRequests ==
    {SeedRequest("co-1", batch) : batch \in ChartBatches}
    \cup {SeedRequest("co-2", <<Template("1000", None, FALSE)>>),
          SeedRequest("co-9", <<Template("1", None, TRUE), Template("1", None, TRUE)>>)}

ChartNext ==
    \/ /\ UNCHANGED <<reconVars, taskVars, hookVars, callerVars>>
       /\ \E r \in CompanyRequests : company_seq < MaxCompanies /\ CreateCompany(r)
    \/ /\ UNCHANGED <<reconVars, taskVars, hookVars, callerVars>>
       /\ \E r \in ChartAccountRequests : UpsertAccount(r)
    \/ /\ UNCHANGED <<reconVars, taskVars, hookVars, callerVars>>
       /\ \E r \in ChartSeedRequests : SeedChart(r)

ChartSpec == Init /\ [][ChartNext]_vars

----------------------------------------------------------------------------
(* Entries whose lines name accounts of two companies, summary and         *)
(* inactive accounts and accounts the ledger does not hold                 *)

MaxAuditPosting == 3

Dormant1 == [Account("acc-old-1", "co-1", "9", None, TRUE) EXCEPT !.is_active = FALSE]

\* USD 125.00 debited on one account and credited on another
Across(debit_account_id, credit_account_id) ==
    << Line("ln-1", debit_account_id, "Debit", 12500, USD, 12500, None),
       Line("ln-2", credit_account_id, "Credit", 12500, USD, 12500, None) >>

PostingAccountRequests ==
    {[account |-> a, tenant |-> Tenant(a.company_id)] :
        a \in {Cash1, Assets1, Dormant1, Cash2}}

PostingLines ==
    {Balanced("acc-cash-1"), Balanced("acc-cash-2"),
     Across("acc-cash-1", "acc-cash-2"),
     Across("acc-cash-1", "acc-assets-1"),
     Across("acc-old-1", "acc-cash-1"),
     Across("acc-cash-1", "acc-missing"),
     Across("acc-missing", "acc-assets-1"),
     Across("acc-cash-2", "acc-assets-1"),
     <<>>}

PostingPostRequests ==
    {PostRequest(Entry("e1", "jnl-gl", lines), "Commit") : lines \in PostingLines}
    \cup {PostRequest(Entry("e1", "jnl-gl", Balanced("acc-cash-1")), "DryRun")}

PostingReverseRequests == {ReverseRequest("e1")}

PostingNext ==
    \/ /\ UNCHANGED <<reconVars, taskVars, hookVars, callerVars>>
       /\ \E r \in CompanyRequests : company_seq < MaxCompanies /\ CreateCompany(r)
    \/ /\ UNCHANGED <<reconVars, taskVars, hookVars, callerVars>>
       /\ \E r \in PostingAccountRequests : UpsertAccount(r)
    \/ /\ UNCHANGED <<reconVars, taskVars, hookVars, callerVars>>
       /\ \E r \in PostingPostRequests :
                /\ r.mode = "Commit" => Room(PostEntryResult(r), 1, MaxAuditPosting)
                /\ PostEntry(r)
    \/ /\ UNCHANGED <<reconVars, taskVars, hookVars, callerVars>>
       /\ \E r \in PostingReverseRequests :
                Room(ReverseEntryResult(r), 2, MaxAuditPosting) /\ ReverseEntry(r)

PostingSpec == Init /\ [][PostingNext]_vars

----------------------------------------------------------------------------
(* Balanced entries whose first line lacks currency provenance, posted to  *)
(* a journal that is locked and reopened                                   *)

\* a debit line worth USD 100.00 against a plain USD 100.00 credit
Against(account_id, debit_line) ==
    << debit_line, Line("ln-2", account_id, "Credit", 10000, USD, 10000, None) >>

EurDebit(account_id, exchange_rate) ==
    Line("ln-1", account_id, "Debit", 9300, EUR, 10000, exchange_rate)

UsdDebit(account_id, amount_minor, exchange_rate) ==
    Line("ln-1", account_id, "Debit", amount_minor, USD, 10000, exchange_rate)

ProvenanceLines ==
    {Against("acc-cash-1", EurDebit("acc-cash-1", rate)) :
        rate \in {None, Some(EcbRate),
                  Some([EcbRate EXCEPT !.base = USD]),
                  Some([EcbRate EXCEPT !.quote = EUR]),
                  Some([EcbRate EXCEPT !.source = None])}}
    \cup {Against("acc-cash-1", UsdDebit("acc-cash-1", 10000, Some(EcbRate))),
          Against("acc-cash-1", UsdDebit("acc-cash-1", 9300, None)),
          Against("acc-cash-1", UsdDebit("acc-cash-1", 10000, None)),
          Against("acc-missing", EurDebit("acc-missing", None))}

ProvenancePostRequests ==
    {PostRequest(Entry("e1", "jnl-gl", lines), mode) :
        lines \in ProvenanceLines, mode \in Modes}

ProvenanceLockRequests ==
    {LockRequest("co-1", "jnl-gl", Period(2024, 1), a, None) :
        a \in {"SoftClose", "Close", "ReopenFull"}}

ProvenanceNext ==
    \/ /\ UNCHANGED <<reconVars, taskVars, hookVars, callerVars>>
       /\ \E r \in CompanyRequests : companies = EmptyMap /\ CreateCompany(r)
    \/ /\ UNCHANGED <<reconVars, taskVars, hookVars, callerVars>>
       /\ \E r \in ReversalAccountRequests : UpsertAccount(r)
    \/ /\ UNCHANGED <<reconVars, taskVars, hookVars, callerVars>>
       /\ \E r \in ProvenancePostRequests :
                /\ r.mode = "Commit" => Room(PostEntryResult(r), 1, MaxAuditPosting)
                /\ PostEntry(r)
    \/ /\ UNCHANGED <<reconVars, taskVars, hookVars, callerVars>>
       /\ \E r \in ProvenanceLockRequests :
                Room(LockPeriodResult(r), 1, MaxAuditPosting) /\ LockPeriod(r)

ProvenanceSpec == Init /\ [][ProvenanceNext]_vars

----------------------------------------------------------------------------
(* Entries of a USD company whose lines name their own functional currency *)

\* EUR 125.00 carried as its own functional amount
EurLine(id, account_id, side) ==
    [Line(id, account_id, side, 12500, EUR, 12500, None) EXCEPT !.functional_currency = EUR]

FunctionalLines ==
    {Balanced("acc-cash-1"),
     BalancedFx("acc-cash-1"),
     << EurLine("ln-1", "acc-cash-1", "Debit"), EurLine("ln-2", "acc-cash-1", "Credit") >>,
     << Line("ln-1", "acc-cash-1", "Debit", 12500, USD, 12500, None),
        EurLine("ln-2", "acc-cash-1", "Credit") >>}

FunctionalPostRequests ==
    {PostRequest(Entry(id, "jnl-gl", lines), mode) :
        id \in {"e1", "e2"}, lines \in FunctionalLines, mode \in Modes}

FunctionalNext ==
    \/ /\ UNCHANGED <<reconVars, taskVars, hookVars, callerVars>>
       /\ \E r \in CompanyRequests : companies = EmptyMap /\ CreateCompany(r)
    \/ /\ UNCHANGED <<reconVars, taskVars, hookVars, callerVars>>
       /\ \E r \in ReversalAccountRequests : UpsertAccount(r)
    \/ /\ UNCHANGED <<reconVars, taskVars, hookVars, callerVars>>
       /\ \E r \in FunctionalPostRequests :
                /\ r.mode = "Commit" => Room(PostEntryResult(r), 1, MaxAuditPosting)
                /\ PostEntry(r)

FunctionalSpec == Init /\ [][FunctionalNext]_vars

----------------------------------------------------------------------------
(* Two tasks call reverse_entry while whole calls set the ledger up        *)

MutexAccountRequests == {[account |-> Cash1, tenant |-> Tenant("co-1")]}

\* entries are posted under ids the ledger does not hold yet
MutexPostRequests ==
    {PostRequest(Entry(id, "jnl-gl", Balanced("acc-cash-1")), mode) :
        id \in {"e1", "e2"} \ DOMAIN entries, mode \in Modes}

MutexReverseRequests == {ReverseRequest("e1"), ReverseRequest("je-missing")}

MutexNext ==
    \/ /\ UNCHANGED <<reconVars, taskVars, hookVars, callerVars>>
       /\ MutexFree
       /\ \E r \in CompanyRequests : company_seq < MaxCompanies /\ CreateCompany(r)
    \/ /\ UNCHANGED <<reconVars, taskVars, hookVars, callerVars>>
       /\ MutexFree
       /\ \E r \in MutexAccountRequests : UpsertAccount(r)
    \/ /\ UNCHANGED <<reconVars, taskVars, hookVars, callerVars>>
       /\ MutexFree
       /\ \E r \in MutexPostRequests : PostEntry(r)
    \/ /\ UNCHANGED <<reconVars, recon_calls, hookVars, callerVars>>
       /\ \E task \in Tasks, r \in MutexReverseRequests : InvokeReverse(task, r)
    \/ /\ UNCHANGED <<reconVars, recon_calls, hookVars, callerVars>>
       /\ \E task \in Tasks : AcquireState(task)
    \/ /\ UNCHANGED <<reconVars, recon_calls, hookVars, callerVars>>
       /\ \E task \in Tasks : CheckReverse(task)
    \/ /\ UNCHANGED <<reconVars, recon_calls, hookVars, callerVars>>
       /\ \E task \in Tasks : CommitReverse(task)

MutexSpec == Init /\ [][MutexNext]_vars

----------------------------------------------------------------------------
(* Two tasks call the reconciliation service at the same time              *)

RaceRequests ==
    {<<"accept", [session_id |-> "sess-1", candidate_id |-> CandidateId(1)]>>,
     <<"reject", [session_id |-> "sess-1", candidate_id |-> CandidateId(1)]>>,
     <<"add_candidate", [session_id |-> "sess-1", proposal |-> Proposal(None)]>>,
     <<"accept", [session_id |-> "sess-0", candidate_id |-> CandidateId(1)]>>}

RaceNext ==
    \/ /\ UNCHANGED <<ledgerVars, state_mutex, ledger_calls, recon_calls, hookVars, callerVars>>
       /\ \E c \in {"comp-1"} :
                session_seq < MaxSessions /\ CreateSession([company_id |-> c])
    \/ /\ UNCHANGED <<ledgerVars, state_mutex, ledger_calls, recon_calls, hookVars, callerVars>>
       /\ \E s \in SessionIds :
                /\ candidate_seq < MaxCandidates
                /\ AddCandidate([session_id |-> s, proposal |-> Proposal(Some("g1"))])
    \/ /\ UNCHANGED <<ledgerVars, state_mutex, ledger_calls, hookVars, callerVars>>
       /\ \E task \in Tasks, r \in RaceRequests :
                /\ r[1] = "add_candidate" => candidate_seq < MaxCandidates
                /\ FetchSession(task, r[1], r[2])
    \/ /\ UNCHANGED <<ledgerVars, state_mutex, ledger_calls, hookVars, callerVars>>
       /\ \E task \in Tasks : SaveSession(task)

RaceSpec == Init /\ [][RaceNext]_vars

----------------------------------------------------------------------------
(* One caller of the reconciliation service, statement by statement, while *)
(* audit hooks are being registered                                        *)

MaxHookEvents == 2

HookTasks == {"a"}

HookRequests ==
    {<<"add_candidate", [session_id |-> "sess-1", proposal |-> Proposal(Some("g1"))]>>,
     <<"accept", [session_id |-> "sess-1", candidate_id |-> CandidateId(1)]>>,
     <<"reject", [session_id |-> "sess-1", candidate_id |-> CandidateId(1)]>>,
     <<"accept_partial", [session_id |-> "sess-1", group_id |-> "g1",
                          candidate_ids |-> <<CandidateId(1)>>]>>,
     <<"write_off", [session_id |-> "sess-1", candidate_id |-> CandidateId(1),
                     reason |-> "timing difference"]>>,
     <<"reopen", [session_id |-> "sess-1"]>>,
     <<"reject", [session_id |-> "sess-0", candidate_id |-> CandidateId(1)]>>}

\* a call may start while every hook has room for the event it may bring
HookRoom == \A hook \in Hooks : Len(hook_log[hook]) < MaxHookEvents

HookNext ==
    \/ /\ UNCHANGED <<ledgerVars, reconVars, taskVars, callerVars>>
       /\ \E hook \in Hooks :
                /\ \A i \in 1..Len(audit_hooks) : audit_hooks[i] # hook
                /\ RegisterAuditHook(hook)
    \/ /\ UNCHANGED <<ledgerVars, state_mutex, ledger_calls, hookVars, callerVars>>
       /\ \E task \in HookTasks :
                /\ session_seq < MaxSessions
                /\ HookRoom
                /\ StoreCreateSession(task, [company_id |-> "comp-1"])
    \/ /\ UNCHANGED <<ledgerVars, state_mutex, ledger_calls, hookVars, callerVars>>
       /\ \E task \in HookTasks, r \in HookRequests :
                /\ r[1] = "add_candidate" => candidate_seq < MaxCandidates
                /\ HookRoom
                /\ FetchSession(task, r[1], r[2])
    \/ /\ UNCHANGED <<ledgerVars, state_mutex, ledger_calls, hookVars, callerVars>>
       /\ \E task \in HookTasks : SaveSession(task)
    \/ /\ UNCHANGED <<ledgerVars, state_mutex, ledger_calls, callerVars>>
       /\ \E task \in HookTasks : ReturnCall(task)

HookSpec == Init /\ [][HookNext]_vars

----------------------------------------------------------------------------
(* A caller that holds a JournalEntry and calls its reconciliation methods *)

stateVars == <<company_seq, companies, accounts, account_codes, journals, periods,
               entries, entry_companies, audit_events, audit_seq>>

SessionRefs == {"sess-1", "sess-2", "sess-3"}

\* approval references as typed: empty, blank, plain, with a leading blank
ApprovalRefs == {<<>>, <<" ">>, <<"a", "7">>, <<" ", "b", "2">>}

HeldStatuses ==
    {Unreconciled}
        \cup {Pending(s) : s \in SessionRefs}
        \cup {Reconciled(s) : s \in SessionRefs}
        \cup {WriteOffStatus(a) : a \in {r \in ApprovalRefs : Trim(r) # <<>>}}

EntryInit ==
    /\ LedgerInit /\ ReconInit /\ TaskInit /\ HookInit
    /\ held_entry \in
          {[Entry(id, "jnl-gl", Balanced("acc-cash-1")) EXCEPT !.reconciliation_status = s] :
              id \in {"e1", "e2"}, s \in HeldStatuses}
    /\ scored = None

\* entry.method(argument) on the entry the caller holds
CallMethod(op, argument, outcome) ==
    /\ held_entry' = outcome.entry
    /\ response' = Respond(op, [entry |-> held_entry, argument |-> argument], outcome.result)
    /\ UNCHANGED <<stateVars, reconVars, taskVars, hookVars, scored>>

EntryNext ==
    \/ \E s \in SessionRefs :
          CallMethod("mark_reconciliation_pending", s,
                     mark_reconciliation_pending(held_entry, s))
    \/ \E s \in SessionRefs :
          CallMethod("mark_reconciled", s, mark_reconciled(held_entry, s))
    \/ \E a \in ApprovalRefs :
          CallMethod("mark_write_off", a, mark_write_off(held_entry, a))
    \/ CallMethod("clear_reconciliation", None, clear_reconciliation(held_entry))

EntrySpec == EntryInit /\ [][EntryNext]_vars

----------------------------------------------------------------------------
(* A caller that scores proposals with a WeightedScoringStrategy           *)

AmountDeltas == {I64Min, -5001, -5000, -2500, -50, 0, 50, 4999, 5000, 5001}

DateDeltas == {I64Min, -8, -7, -1, 0, 1, 6, 7}

Descriptions == {<<>>, <<"rent">>, <<"Rent", "invoice">>}

\* the default strategy, one built with tolerances below 1, one without weight
Strategies ==
    {DefaultStrategy,
     WeightedScoringStrategyNew(500, 500, 0, 0, -3),
     WeightedScoringStrategyNew(0, 0, 0, 5000, 7)}

ScoredProposals ==
    {[transaction_id |-> "txn-1", journal_entry_id |-> "je-1",
      amount_delta_minor |-> a, date_delta_days |-> d,
      transaction_description |-> t, journal_description |-> <<"rent">>,
      group_id |-> None] :
        a \in AmountDeltas, d \in DateDeltas, t \in Descriptions}

ScoreNext ==
    \/ /\ UNCHANGED <<ledgerVars, reconVars, taskVars, hookVars, held_entry>>
       /\ \E strategy \in Strategies, proposal \in ScoredProposals :
                Score(strategy, proposal, TRUE)
    \/ /\ UNCHANGED <<ledgerVars, reconVars, taskVars, hookVars, held_entry>>
       /\ \E strategy \in Strategies, proposal \in ScoredProposals :
                Score(strategy, proposal, FALSE)

ScoreSpec == Init /\ [][ScoreNext]_vars

----------------------------------------------------------------------------
(* Properties                                                              *)

RECURSIVE TotalOver(_, _)
TotalOver(lines, indices) ==
    IF indices = {} THEN 0
    ELSE LET i == CHOOSE j \in indices : TRUE
         IN  lines[i].functional_amount_minor + TotalOver(lines, indices \ {i})

FunctionalTotal(entry, side) ==
    TotalOver(entry.lines, {i \in 1..Len(entry.lines) : entry.lines[i].side = side})

Balances(entry) == FunctionalTotal(entry, "Debit") = FunctionalTotal(entry, "Credit")

\* the request's lines resolve to posting accounts of one company whose
\* journal request.entry.journal_id exists
TargetsJournal(request) ==
    /\ Len(request.entry.lines) > 0
    /\ ResolveLines(request.entry.lines, 1, None).status = "Ok"
    /\ journal_key(ResolveLines(request.entry.lines, 1, None).value[1],
                   request.entry.journal_id) \in DOMAIN journals

TargetJournal(request) ==
    journals[journal_key(ResolveLines(request.entry.lines, 1, None).value[1],
                         request.entry.journal_id)]

StoresNothing ==
    /\ entries' = entries
    /\ entry_companies' = entry_companies
    /\ audit_events' = audit_events
    /\ audit_seq' = audit_seq

ClosedPeriodRefusesPosting ==
    [][ ( /\ response'.op = "post_entry"
          /\ TargetsJournal(response'.request)
          /\ TargetJournal(response'.request).period_state \in {"SoftClosed", "Closed"} )
        => /\ response'.result =
                 IF TargetJournal(response'.request).period_state = "SoftClosed"
                 THEN Err("Rejected", "soft-close prevents posting without override")
                 ELSE Err("Rejected", "period closed")
           /\ StoresNothing
      ]_vars

\* a balanced, otherwise valid Commit was refused on a soft-closed journal
ClosedPeriodRefusesPostingWitness ==
    /\ response.op = "post_entry"
    /\ response.request.mode = "Commit"
    /\ Balances(response.request.entry)
    /\ TargetsJournal(response.request)
    /\ TargetJournal(response.request).period_state = "SoftClosed"
    /\ response.result.message = "soft-close prevents posting without override"

Reversals(original_id) ==
    {id \in DOMAIN entries : entries[id].reverses_entry_id = Some(original_id)}

\* C4: there is never more than one stored entry whose reverses_entry_id
\* names the same original, i.e. reverse_entry succeeds at most once for an
\* entry id.
AtMostOneReversal == \A id \in DOMAIN entries : Cardinality(Reversals(id)) <= 1

\* C5: a successful reverse_entry stores the returned entry, Posted, with the
\* original's lines in order, each with its side flipped and its account,
\* amounts, currencies and exchange rate unchanged, origin Adjustment,
\* reverses_entry_id the original and reversed_by_entry_id None; the original
\* gets reversed_by_entry_id = the new id and keeps its lines and status.
SameButSide(line, reversed) ==
    /\ reversed.side # line.side
    /\ reversed.side \in {"Debit", "Credit"}
    /\ reversed.account_id = line.account_id
    /\ reversed.amount_minor = line.amount_minor
    /\ reversed.currency = line.currency
    /\ reversed.functional_amount_minor = line.functional_amount_minor
    /\ reversed.functional_currency = line.functional_currency
    /\ reversed.exchange_rate = line.exchange_rate

ReversalMirrorsOriginal ==
    [][ ( /\ response'.op = "reverse_entry"
          /\ response'.result.status = "Ok" )
        => LET original_id == response'.request.entry_id
               original == entries[original_id]
               reversal == response'.result.value
           IN  /\ reversal.id \in DOMAIN entries'
               /\ entries'[reversal.id] = reversal
               /\ reversal.id # original_id
               /\ reversal.status = "Posted"
               /\ reversal.origin = "Adjustment"
               /\ reversal.reverses_entry_id = Some(original_id)
               /\ reversal.reversed_by_entry_id = None
               /\ Len(reversal.lines) = Len(original.lines)
               /\ \A i \in 1..Len(original.lines) :
                     SameButSide(original.lines[i], reversal.lines[i])
               /\ entries'[original_id].reversed_by_entry_id = Some(reversal.id)
               /\ entries'[original_id].lines = original.lines
               /\ entries'[original_id].status = original.status
      ]_vars

\* the reversal of a three-line FX entry has been stored
ReversalMirrorsOriginalWitness ==
    /\ response.op = "reverse_entry"
    /\ response.result.status = "Ok"
    /\ Len(response.result.value.lines) = 3
    /\ IsSome(response.result.value.lines[1].exchange_rate)
    /\ entries[response.request.entry_id].reversed_by_entry_id
           = Some(response.result.value.id)

\* C6: whatever the entity_id, cursor and limit, list_audit_trail returns
\* only events of the filter's tenant; an entity id with no event under that
\* tenant yields the empty list, and a cursor that is not one of the
\* tenant's own matching events changes nothing in the answer.
TenantEvents(filter) ==
    LET Own(event) == event.company_id = filter.tenant.tenant_id
        Named(event) == event.entity_id = filter.entity_id[1]
        own == SelectSeq(audit_events, Own)
    IN  IF IsSome(filter.entity_id) THEN SelectSeq(own, Named) ELSE own

Truncated(events, limit) ==
    IF IsSome(limit) /\ Len(events) > limit[1] THEN SubSeq(events, 1, limit[1]) ELSE events

AuditTrailTenantScoped ==
    response.op = "list_audit_trail" =>
        LET filter == response.request
            returned == response.result.value
        IN  /\ response.result.status = "Ok"
            /\ \A i \in 1..Len(returned) :
                  returned[i].company_id = filter.tenant.tenant_id
            /\ ( /\ IsSome(filter.entity_id)
                 /\ ~\E i \in 1..Len(audit_events) :
                        /\ audit_events[i].entity_id = filter.entity_id[1]
                        /\ audit_events[i].company_id = filter.tenant.tenant_id )
               => returned = <<>>
            /\ ( \/ ~IsSome(filter.cursor)
                 \/ ~\E i \in 1..Len(TenantEvents(filter)) :
                        TenantEvents(filter)[i].id = filter.cursor[1] )
               => returned = Truncated(TenantEvents(filter), filter.limit)

\* tenant co-2, which has events of its own, asks for entity e1 of tenant
\* co-1 with a cursor taken from co-1's events and gets nothing
AuditTrailTenantScopedWitness ==
    /\ response.op = "list_audit_trail"
    /\ response.request.tenant.tenant_id = "co-2"
    /\ response.request.entity_id = Some("e1")
    /\ response.request.cursor = Some("audit-1")
    /\ \E i \in 1..Len(audit_events) :
          /\ audit_events[i].id = "audit-1"
          /\ audit_events[i].entity_id = "e1"
          /\ audit_events[i].company_id = "co-1"
    /\ \E i \in 1..Len(audit_events) : audit_events[i].company_id = "co-2"
    /\ response.result.value = <<>>

\* the stored session a reconciliation call addressed, before and after it
Stored(request) == sessions[request.session_id]

\* C7: after a successful accept the target is Accepted without a write-off
\* reason, every other candidate that was Pending or PartiallyAccepted is
\* Rejected, the remaining candidates are unchanged and the session is
\* Closed.
AcceptClosesSession ==
    [][ ( /\ recon_response'.op = "accept"
          /\ recon_response'.result.status = "Ok" )
        => LET request == recon_response'.request
               before == sessions[request.session_id]
               after == sessions'[request.session_id]
           IN  /\ after.status = "Closed"
               /\ after.id = before.id /\ after.company_id = before.company_id
               /\ Len(after.candidates) = Len(before.candidates)
               /\ \E i \in 1..Len(before.candidates) :
                     /\ before.candidates[i].id = request.candidate_id
                     /\ recon_response'.result.value = after.candidates[i]
               /\ \A i \in 1..Len(before.candidates) :
                     after.candidates[i] =
                        IF before.candidates[i].id = request.candidate_id
                        THEN [before.candidates[i] EXCEPT !.status = "Accepted",
                                                          !.write_off_reason = None]
                        ELSE IF before.candidates[i].status
                                    \in {"Pending", "PartiallyAccepted"}
                        THEN [before.candidates[i] EXCEPT !.status = "Rejected"]
                        ELSE before.candidates[i]
      ]_vars

\* an accept rejected a PartiallyAccepted sibling and left a WrittenOff one
AcceptClosesSessionWitness ==
    /\ recon_response.op = "accept"
    /\ recon_response.result.status = "Ok"
    /\ LET before == recon_response.fetched[1]
           after == Stored(recon_response.request)
       IN  /\ \E i \in 1..Len(before.candidates) :
                 /\ before.candidates[i].status = "PartiallyAccepted"
                 /\ after.candidates[i].status = "Rejected"
           /\ \E i \in 1..Len(before.candidates) :
                 /\ before.candidates[i].status = "WrittenOff"
                 /\ after.candidates[i] = before.candidates[i]

AllPendingNoReason(session) ==
    \A i \in 1..Len(session.candidates) :
        /\ session.candidates[i].status = "Pending"
        /\ session.candidates[i].write_off_reason = None

\* C8 as stated: after any successful reopen the stored session is Open and
\* every candidate is Pending without a write-off reason.
ReopenResetsEverySession ==
    ( /\ recon_response.op = "reopen"
      /\ recon_response.result.status = "Ok" )
    => /\ Stored(recon_response.request).status = "Open"
       /\ AllPendingNoReason(Stored(recon_response.request))

\* C8 amended: a successful reopen of a session that was PendingPartial or
\* Closed leaves it Open with every candidate Pending and without a
\* write-off reason (ids, groups and scores kept); a reopen of a session
\* that was already Open leaves the stored session as it was.
ReopenResetsUnlessOpen ==
    [][ ( /\ recon_response'.op = "reopen"
          /\ recon_response'.result.status = "Ok" )
        => LET request == recon_response'.request
               before == sessions[request.session_id]
               after == sessions'[request.session_id]
           IN  /\ recon_response'.result.value = after
               /\ IF before.status = "Open"
                  THEN after = before
                  ELSE /\ after.status = "Open"
                       /\ AllPendingNoReason(after)
                       /\ Len(after.candidates) = Len(before.candidates)
                       /\ \A i \in 1..Len(before.candidates) :
                             after.candidates[i] =
                                [before.candidates[i] EXCEPT !.status = "Pending",
                                                             !.write_off_reason = None]
      ]_vars

\* a Closed session with an Accepted and a written-off candidate was reopened
ReopenResetsUnlessOpenWitness ==
    /\ recon_response.op = "reopen"
    /\ recon_response.result.status = "Ok"
    /\ recon_response.fetched[1].status = "Closed"
    /\ \E i \in 1..Len(recon_response.fetched[1].candidates) :
          IsSome(recon_response.fetched[1].candidates[i].write_off_reason)
    /\ Len(Stored(recon_response.request).candidates) >= 2
    /\ AllPendingNoReason(Stored(recon_response.request))

KnownIds(session) == {session.candidates[i].id : i \in 1..Len(session.candidates)}

\* C9: an accept_partial that names an id the session does not contain
\* fails with InvalidTransition and leaves the stored session unchanged.
PartialAcceptRejectsUnknownId ==
    ( /\ recon_response.op = "accept_partial"
      /\ IsSome(recon_response.fetched)
      /\ \E k \in 1..Len(recon_response.request.candidate_ids) :
            recon_response.request.candidate_ids[k]
                \notin KnownIds(recon_response.fetched[1]) )
    => /\ recon_response.result.status = "InvalidTransition"
       /\ Stored(recon_response.request) = recon_response.fetched[1]

\* C10: accept_partial fails with InvalidTransition, the stored session
\* unchanged, when the id list is empty or names a candidate of the session
\* of another group or not Pending; when it succeeds the named candidates of
\* the session, and only they, become PartiallyAccepted and the session
\* PendingPartial.
PartialAcceptGuarded ==
    [][ ( /\ recon_response'.op = "accept_partial"
          /\ IsSome(recon_response'.fetched) )
        => LET request == recon_response'.request
               before == sessions[request.session_id]
               after == sessions'[request.session_id]
               Named(candidate) == Contains(request.candidate_ids, candidate.id)
               refused ==
                  \/ request.candidate_ids = <<>>
                  \/ \E i \in 1..Len(before.candidates) :
                        /\ Named(before.candidates[i])
                        /\ \/ before.candidates[i].group_id # Some(request.group_id)
                           \/ before.candidates[i].status # "Pending"
           IN  /\ refused => /\ recon_response'.result.status = "InvalidTransition"
                             /\ after = before
               /\ recon_response'.result.status = "Ok" =>
                     /\ after.status = "PendingPartial"
                     /\ after.id = before.id /\ after.company_id = before.company_id
                     /\ Len(after.candidates) = Len(before.candidates)
                     /\ \A i \in 1..Len(before.candidates) :
                           after.candidates[i] =
                              IF Named(before.candidates[i])
                              THEN [before.candidates[i] EXCEPT
                                       !.status = "PartiallyAccepted"]
                              ELSE before.candidates[i]
               /\ recon_response'.result.status # "Ok" => after = before
      ]_vars

\* two candidates of group g1 were partially accepted next to a third one
PartialAcceptGuardedWitness ==
    /\ recon_response.op = "accept_partial"
    /\ recon_response.result.status = "Ok"
    /\ Len(recon_response.request.candidate_ids) = 2
    /\ Len(recon_response.result.value) = 2
    /\ Stored(recon_response.request).status = "PendingPartial"
    /\ \E i \in 1..Len(Stored(recon_response.request).candidates) :
          Stored(recon_response.request).candidates[i].status = "Pending"

Mutators == {"add_candidate", "accept", "reject", "accept_partial", "write_off"}

\* C11: on a Closed session add_candidate, accept, reject, accept_partial
\* and write_off fail with InvalidTransition, leave the store as it was and
\* emit no audit event; a step that changes a Closed session is a reopen.
ClosedSessionImmutable ==
    [][ /\ ( /\ recon_response'.op \in Mutators
             /\ IsSome(recon_response'.fetched)
             /\ sessions[recon_response'.request.session_id].status = "Closed" )
           => /\ recon_response'.result.status = "InvalidTransition"
              /\ sessions' = sessions
              /\ recon_response'.emitted = None
        /\ \A id \in DOMAIN sessions :
              ( sessions[id].status = "Closed" /\ sessions'[id] # sessions[id] )
              => /\ recon_response'.op = "reopen"
                 /\ recon_response'.request.session_id = id
      ]_vars

\* an add_candidate was refused by a Closed session that holds candidates
ClosedSessionImmutableWitness ==
    /\ recon_response.op = "add_candidate"
    /\ IsSome(recon_response.fetched)
    /\ recon_response.fetched[1].status = "Closed"
    /\ recon_response.result.status = "InvalidTransition"
    /\ recon_response.emitted = None
    /\ Len(Stored(recon_response.request).candidates) >= 2
    /\ Stored(recon_response.request) = recon_response.fetched[1]

\* C12: a save stores the session as the task fetched and mutated it,
\* whatever the store holds by then, so a concurrent call's saved
\* transition is overwritten while both calls return success.
StaleCopySaved ==
    [][ \A task \in Tasks :
          ( /\ recon_calls[task].pc = "fetched"
            /\ recon_calls'[task].pc = "done"
            /\ recon_calls'[task].result.status = "Ok" )
          => sessions'[recon_calls[task].request.session_id] =
                CallMutator(recon_calls[task], recon_calls[task].copy[1]).session
      ]_vars

\* a successful accept was overwritten by the stale copy of a concurrent
\* add_candidate: both returned Ok, the session is Open, nothing is Accepted
StaleCopySavedWitness ==
    \E task, other \in Tasks :
        /\ recon_calls[task].pc = "done" /\ recon_calls[other].pc = "done"
        /\ recon_calls[task].op = "accept" /\ recon_calls[other].op = "add_candidate"
        /\ recon_calls[task].result.status = "Ok"
        /\ recon_calls[other].result.status = "Ok"
        /\ recon_calls[task].request.session_id = recon_calls[other].request.session_id
        /\ LET session == sessions[recon_calls[task].request.session_id]
           IN  /\ session.status = "Open"
               /\ \A i \in 1..Len(session.candidates) :
                     session.candidates[i].status # "Accepted"

\* C13: at most one task is between acquiring and dropping the state
\* guard, what a call has read is still the stored state when it writes,
\* and of two reverse_entry calls on the same stored entry exactly one
\* succeeds while the other is Rejected 'entry already reversed'.
LedgerCallsSerial ==
    /\ \A task \in Tasks :
          ledger_calls[task].pc \in {"locked", "checked"} => state_mutex = Some(task)
    /\ \A task \in Tasks :
          ledger_calls[task].pc = "checked"
          => ledger_calls[task].result = ReverseEntryResult(ledger_calls[task].request)
    /\ \A task \in Tasks : \A other \in Tasks \ {task} :
          ( /\ ledger_calls[task].pc = "done" /\ ledger_calls[other].pc = "done"
            /\ ledger_calls[task].request = ledger_calls[other].request
            /\ ledger_calls[task].result.status # "NotFound"
            /\ ledger_calls[other].result.status # "NotFound" )
          => \/ /\ ledger_calls[task].result.status = "Ok"
                /\ ledger_calls[other].result = Err("Rejected", "entry already reversed")
             \/ /\ ledger_calls[other].result.status = "Ok"
                /\ ledger_calls[task].result = Err("Rejected", "entry already reversed")

\* two overlapping reverse_entry calls on e1 returned: one reversal is
\* stored, the other call was Rejected
LedgerCallsSerialWitness ==
    \E task \in Tasks : \E other \in Tasks \ {task} :
        /\ ledger_calls[task].pc = "done" /\ ledger_calls[other].pc = "done"
        /\ ledger_calls[other].contended
        /\ ledger_calls[task].request.entry_id = "e1"
        /\ ledger_calls[other].request.entry_id = "e1"
        /\ ledger_calls[task].result.status = "Ok"
        /\ ledger_calls[other].result = Err("Rejected", "entry already reversed")
        /\ Cardinality(Reversals("e1")) = 1

LedgerStateUnchanged ==
    UNCHANGED <<company_seq, companies, accounts, account_codes, journals, periods,
                entries, entry_companies, audit_events, audit_seq>>

\* C14: a post_entry or reverse_entry that fails, and a DryRun post_entry,
\* leave the whole ledger state as it was; a successful DryRun returns the
\* entry with status Proposed.
OnlyCommittedCallsWrite ==
    [][ /\ ( /\ response'.op \in {"post_entry", "reverse_entry"}
             /\ response'.result.status # "Ok" )
           => LedgerStateUnchanged
        /\ ( /\ response'.op = "post_entry"
             /\ response'.request.mode = "DryRun" )
           => /\ LedgerStateUnchanged
              /\ response'.result.status = "Ok"
                 => response'.result.value.status = "Proposed"
      ]_vars

\* a DryRun of a valid entry returned Ok next to a stored entry of the same
\* id that it did not touch
OnlyCommittedCallsWriteWitness ==
    /\ response.op = "post_entry"
    /\ response.request.mode = "DryRun"
    /\ response.result.status = "Ok"
    /\ response.result.value.status = "Proposed"
    /\ response.request.entry.id \in DOMAIN entries
    /\ IsSome(entries[response.request.entry.id].reversed_by_entry_id)

LinksCleared(entry) ==
    /\ entry.reconciliation_status = [kind |-> "Unreconciled", ref |-> ""]
    /\ entry.reverses_entry_id = None
    /\ entry.reversed_by_entry_id = None

\* C15: the entry a successful post_entry returns, and the entry a Commit
\* stores, is Unreconciled and carries no reversal link, whatever the
\* request carried in those fields.
PostClearsLinks ==
    [][ ( /\ response'.op = "post_entry"
          /\ response'.result.status = "Ok" )
        => /\ LinksCleared(response'.result.value)
           /\ response'.request.mode = "Commit"
              => entries'[response'.request.entry.id] = response'.result.value
      ]_vars

\* an entry sent as Reconciled and with both reversal links was committed
PostClearsLinksWitness ==
    /\ response.op = "post_entry"
    /\ response.result.status = "Ok"
    /\ response.request.mode = "Commit"
    /\ response.request.entry.reconciliation_status.kind = "Reconciled"
    /\ IsSome(response.request.entry.reverses_entry_id)
    /\ IsSome(response.request.entry.reversed_by_entry_id)
    /\ LinksCleared(entries[response.request.entry.id])

LockedKey(request) == journal_key(request.tenant.tenant_id, request.journal_id)

\* C16: a lock_period on an existing journal succeeds whatever the journal's
\* state and history and leaves it in the state its action names; a valid
\* post_entry to a journal whose latest lock is a ReopenFull succeeds.
LockSetsTargetState ==
    [][ /\ ( /\ response'.op = "lock_period"
             /\ LockedKey(response'.request) \in DOMAIN journals )
           => /\ response'.result.status = "Ok"
              /\ response'.result.value = journals'[LockedKey(response'.request)]
              /\ journals'[LockedKey(response'.request)].period_state =
                    CASE response'.request.action = "SoftClose" -> "SoftClosed"
                      [] response'.request.action = "Close" -> "Closed"
                      [] response'.request.action = "ReopenSoft" -> "SoftClosed"
                      [] response'.request.action = "ReopenFull" -> "Open"
        /\ ( /\ response'.op = "post_entry"
             /\ TargetsJournal(response'.request)
             /\ IsSome(TargetJournal(response'.request).latest_lock)
             /\ TargetJournal(response'.request).latest_lock[1].action = "ReopenFull"
             /\ validate_entry(response'.request.entry).status = "Ok" )
           => response'.result.status = "Ok"
      ]_vars

\* a Commit succeeded on a journal that was Closed and then fully reopened
LockSetsTargetStateWitness ==
    /\ response.op = "post_entry"
    /\ response.request.mode = "Commit"
    /\ response.result.status = "Ok"
    /\ TargetsJournal(response.request)
    /\ Len(TargetJournal(response.request).lock_history) = 2
    /\ TargetJournal(response.request).lock_history[1].action = "Close"
    /\ TargetJournal(response.request).lock_history[2].action = "ReopenFull"

LatestIsLast(journal) ==
    IF journal.lock_history = <<>> THEN journal.latest_lock = None
    ELSE journal.latest_lock = Some(journal.lock_history[Len(journal.lock_history)])

\* C17: a successful lock_period appends one record (the request's period,
\* action, approval_reference and user) to the journal's lock_history and
\* makes it latest_lock; every other step leaves every history as it is; and
\* latest_lock is None for an empty history and its last record otherwise.
LockHistoryAppendOnly ==
    [][ \A key \in DOMAIN journals :
          /\ key \in DOMAIN journals'
          /\ LatestIsLast(journals'[key])
          /\ IF /\ response'.op = "lock_period"
                /\ response'.result.status = "Ok"
                /\ LockedKey(response'.request) = key
             THEN /\ journals'[key].lock_history =
                        Append(journals[key].lock_history,
                               [period |-> response'.request.period,
                                action |-> response'.request.action,
                                approval_reference |->
                                    response'.request.approval_reference,
                                locked_by |-> response'.request.tenant.user_id])
                  /\ journals'[key].latest_lock =
                        Some(journals'[key].lock_history[Len(journals[key].lock_history) + 1])
             ELSE journals'[key].lock_history = journals[key].lock_history
      ]_vars

\* the same Close request was made twice and is recorded twice
LockHistoryAppendOnlyWitness ==
    /\ response.op = "lock_period"
    /\ response.result.status = "Ok"
    /\ LET history == journals[LockedKey(response.request)].lock_history
       IN  /\ Len(history) = 3
           /\ history[2] = history[3]
           /\ history[1] # history[2]

\* the state the locks of a journal's history give a period: the target of
\* the last lock recorded for it, Open without one
RECURSIVE StateFromHistory(_, _, _)
StateFromHistory(history, period, i) ==
    IF i = 0 THEN "Open"
    ELSE IF history[i].period = period
    THEN CASE history[i].action = "SoftClose" -> "SoftClosed"
           [] history[i].action = "Close" -> "Closed"
           [] history[i].action = "ReopenSoft" -> "SoftClosed"
           [] history[i].action = "ReopenFull" -> "Open"
    ELSE StateFromHistory(history, period, i - 1)

\* C18: a successful ensure_period returns Open for a period no lock_period
\* named and otherwise the target state of the latest lock_period on that
\* period, again on a repeated call; it changes no recorded period state, no
\* journal and no audit event.
EnsurePeriodPreservesLocks ==
    [][ response'.op = "ensure_period"
        => /\ journals' = journals
           /\ audit_events' = audit_events /\ audit_seq' = audit_seq
           /\ \A k \in DOMAIN periods : k \in DOMAIN periods' /\ periods'[k] = periods[k]
           /\ LET key == LockedKey(response'.request)
              IN  ( response'.request.tenant.tenant_id \in DOMAIN companies
                    /\ key \in DOMAIN journals )
                  => /\ response'.result.status = "Ok"
                     /\ response'.result.value =
                           [journals[key] EXCEPT !.period_state =
                               StateFromHistory(journals[key].lock_history,
                                                response'.request.period,
                                                Len(journals[key].lock_history))]
      ]_vars

\* period 2024/2 was asked for and is Open although the journal is Closed
\* by a lock on 2024/1, which a repeated call still reports
EnsurePeriodPreservesLocksWitness ==
    /\ response.op = "ensure_period"
    /\ response.result.status = "Ok"
    /\ response.request.period = Period(2024, 2)
    /\ response.result.value.period_state = "Open"
    /\ journals[LockedKey(response.request)].period_state = "Closed"
    /\ period_key("co-1", "jnl-gl", Period(2024, 1)) \in DOMAIN periods
    /\ periods[period_key("co-1", "jnl-gl", Period(2024, 1))] = "Closed"

CodeUsed(company_id, code) ==
    \E id \in DOMAIN accounts :
        accounts[id].company_id = company_id /\ accounts[id].code = code

CodesUnique(stored) ==
    \A a, b \in DOMAIN stored :
        (stored[a].company_id = stored[b].company_id /\ stored[a].code = stored[b].code)
            => a = b

\* the call of this step brings a code its company already uses, or one
\* that an earlier template of the same batch brings
BringsUsedCode(call) ==
    \/ /\ call.op = "upsert_account"
       /\ CodeUsed(call.request.account.company_id, call.request.account.code)
    \/ /\ call.op = "seed_chart"
       /\ \E i \in 1..Len(call.request.accounts) :
             \/ CodeUsed(call.request.company_id, call.request.accounts[i].code)
             \/ \E j \in 1..(i - 1) :
                   call.request.accounts[j].code = call.request.accounts[i].code

\* the first template of the batch that brings a used code
FirstUsedCode(request) ==
    CHOOSE i \in 1..Len(request.accounts) :
        /\ \/ CodeUsed(request.company_id, request.accounts[i].code)
           \/ \E j \in 1..(i - 1) : request.accounts[j].code = request.accounts[i].code
        /\ \A k \in 1..(i - 1) :
              /\ ~CodeUsed(request.company_id, request.accounts[k].code)
              /\ \A j \in 1..(k - 1) : request.accounts[j].code # request.accounts[k].code

\* a template before the first used code names a parent code that is
\* neither stored nor earlier in the batch
OrphanBeforeUsedCode(request) ==
    \E k \in 1..(FirstUsedCode(request) - 1) :
        /\ IsSome(request.accounts[k].parent_code)
        /\ ~CodeUsed(request.company_id, request.accounts[k].parent_code[1])
        /\ \A j \in 1..(k - 1) :
              request.accounts[j].code # request.accounts[k].parent_code[1]

ParentsAreSummary ==
    \A id \in DOMAIN accounts :
        IsSome(accounts[id].parent_account_id)
            => /\ accounts[id].parent_account_id[1] \in DOMAIN accounts
               /\ accounts[accounts[id].parent_account_id[1]].is_summary

AllExist(lines) == \A i \in 1..Len(lines) : lines[i].account_id \in DOMAIN accounts

OneCompany(lines) ==
    \A i, j \in 1..Len(lines) :
        accounts[lines[i].account_id].company_id = accounts[lines[j].account_id].company_id

AllEligible(lines) ==
    \A i \in 1..Len(lines) :
        accounts[lines[i].account_id].is_active /\ ~accounts[lines[i].account_id].is_summary

Postable(lines) ==
    Len(lines) > 0 /\ AllExist(lines) /\ OneCompany(lines) /\ AllEligible(lines)

\* C21: post_entry succeeds only for an entry with at least one line whose
\* accounts all exist, belong to one company and are active non-summary
\* accounts; every other entry fails and stores nothing, with Validation for
\* no lines and, when its accounts exist, for two companies or for a summary
\* or inactive account.  Every stored entry's lines name posting-eligible
\* accounts of the company recorded for the entry.
PostingNeedsEligibleAccounts ==
    [][ /\ response'.op = "post_entry"
           => LET lines == response'.request.entry.lines IN
              /\ response'.result.status = "Ok" => Postable(lines)
              /\ ~Postable(lines)
                    => /\ response'.result.status # "Ok"
                       /\ entries' = entries /\ entry_companies' = entry_companies
              /\ Len(lines) = 0 => response'.result.status = "Validation"
              /\ ( Len(lines) > 0 /\ AllExist(lines)
                   /\ (~OneCompany(lines) \/ ~AllEligible(lines)) )
                    => response'.result.status = "Validation"
        /\ \A id \in DOMAIN entries' :
              /\ id \in DOMAIN entry_companies'
              /\ Len(entries'[id].lines) > 0
              /\ \A i \in 1..Len(entries'[id].lines) :
                    LET account_id == entries'[id].lines[i].account_id IN
                    /\ account_id \in DOMAIN accounts'
                    /\ accounts'[account_id].is_active
                    /\ ~accounts'[account_id].is_summary
                    /\ accounts'[account_id].company_id = entry_companies'[id]
      ]_vars

\* an entry across two companies was refused while an entry and its
\* reversal are stored
PostingNeedsEligibleAccountsWitness ==
    /\ response.op = "post_entry"
    /\ response.result.status = "Validation"
    /\ response.request.entry.lines = Across("acc-cash-1", "acc-cash-2")
    /\ "acc-cash-2" \in DOMAIN accounts
    /\ Cardinality(DOMAIN entries) = 2

\* the N of an event id audit-N
EventNumber(event) ==
    CHOOSE n \in 0..(MaxAuditReversal + 2) : event.id = "audit-" \o ToString(n)

\* C22: every step keeps the audit events it found, in place and unchanged,
\* and appends new events at the end, each numbered above every event
\* before it.
AuditLogAppendOnly ==
    [][ /\ Len(audit_events') >= Len(audit_events)
        /\ SubSeq(audit_events', 1, Len(audit_events)) = audit_events
        /\ \A j \in (Len(audit_events) + 1)..Len(audit_events') :
              \A i \in 1..(j - 1) :
                  EventNumber(audit_events'[i]) < EventNumber(audit_events'[j])
      ]_vars

\* a reversal appended its two events behind those of a post and a lock
AuditLogAppendOnlyWitness ==
    /\ response.op = "reverse_entry"
    /\ response.result.status = "Ok"
    /\ Len(audit_events) = 4
    /\ \E i \in 1..2 : audit_events[i].entity_id = "jnl-gl"
    /\ audit_events[4].entity_id = response.result.value.id

\* the candidates of the session that carry the id
WithId(session, candidate_id) ==
    {i \in 1..Len(session.candidates) : session.candidates[i].id = candidate_id}

\* C23: reject on a stored session succeeds exactly when the session is not
\* Closed and the candidate is Pending; a Closed session or another
\* candidate status gives InvalidTransition, an absent id CandidateNotFound,
\* and both leave the session as it was.  On success the candidate becomes
\* Rejected; the session status and every other candidate stay.
RejectTouchesOneCandidate ==
    [][ ( recon_response'.op = "reject"
          /\ recon_response'.request.session_id \in DOMAIN sessions )
        => LET sid == recon_response'.request.session_id
               cid == recon_response'.request.candidate_id
               old == sessions[sid]
               new == sessions'[sid]
               status == recon_response'.result.status
           IN  /\ status = "Ok"
                    <=> ( old.status # "Closed"
                          /\ \E i \in WithId(old, cid) : old.candidates[i].status = "Pending" )
               /\ old.status = "Closed" => status = "InvalidTransition"
               /\ (old.status # "Closed" /\ WithId(old, cid) = {})
                    => status = "CandidateNotFound"
               /\ ( old.status # "Closed"
                    /\ \E i \in WithId(old, cid) : old.candidates[i].status # "Pending" )
                    => status = "InvalidTransition"
               /\ status # "Ok" => sessions' = sessions
               /\ status = "Ok"
                    => /\ new.status = old.status
                       /\ new.status \in {"Open", "PendingPartial"}
                       /\ Len(new.candidates) = Len(old.candidates)
                       /\ \A i \in 1..Len(old.candidates) :
                             new.candidates[i] =
                                IF old.candidates[i].id = cid
                                THEN [old.candidates[i] EXCEPT !.status = "Rejected"]
                                ELSE old.candidates[i]
                       /\ recon_response'.result.value \in
                             {new.candidates[i] : i \in WithId(new, cid)}
      ]_vars

\* a Pending candidate was rejected in a PendingPartial session that holds a
\* PartiallyAccepted candidate
RejectTouchesOneCandidateWitness ==
    /\ recon_response.op = "reject"
    /\ recon_response.result.status = "Ok"
    /\ LET session == sessions[recon_response.request.session_id] IN
       /\ session.status = "PendingPartial"
       /\ \E i \in 1..Len(session.candidates) :
             session.candidates[i].status = "PartiallyAccepted"
       /\ \E i \in 1..Len(session.candidates) :
             session.candidates[i].status = "Pending"

\* C24: write_off on a stored session succeeds exactly when the session is
\* not Closed and the candidate is Pending, PartiallyAccepted or Rejected; it
\* then makes that candidate WrittenOff with the reason, keeps the other
\* candidates and makes the session PendingPartial.  For an Accepted or
\* WrittenOff candidate it fails with InvalidTransition and changes nothing.
WriteOffGuarded ==
    [][ ( recon_response'.op = "write_off"
          /\ recon_response'.request.session_id \in DOMAIN sessions )
        => LET sid == recon_response'.request.session_id
               cid == recon_response'.request.candidate_id
               old == sessions[sid]
               new == sessions'[sid]
               status == recon_response'.result.status
           IN  /\ status = "Ok"
                    <=> ( old.status # "Closed"
                          /\ \E i \in WithId(old, cid) :
                                old.candidates[i].status \in
                                    {"Pending", "PartiallyAccepted", "Rejected"} )
               /\ ( \E i \in WithId(old, cid) :
                        old.candidates[i].status \in {"Accepted", "WrittenOff"} )
                    => status = "InvalidTransition"
               /\ status # "Ok" => sessions' = sessions
               /\ status = "Ok"
                    => /\ new.status = "PendingPartial"
                       /\ new.id = old.id /\ new.company_id = old.company_id
                       /\ Len(new.candidates) = Len(old.candidates)
                       /\ \A i \in 1..Len(old.candidates) :
                             new.candidates[i] =
                                IF old.candidates[i].id = cid
                                THEN [old.candidates[i] EXCEPT
                                         !.status = "WrittenOff",
                                         !.write_off_reason =
                                             Some(recon_response'.request.reason)]
                                ELSE old.candidates[i]
      ]_vars

\* a Rejected candidate was written off in a session that was Open
WriteOffGuardedWitness ==
    /\ recon_response.op = "write_off"
    /\ recon_response.result.status = "Ok"
    /\ IsSome(recon_response.fetched)
    /\ recon_response.fetched[1].status = "Open"
    /\ \E i \in 1..Len(recon_response.fetched[1].candidates) :
          /\ recon_response.fetched[1].candidates[i].id = recon_response.request.candidate_id
          /\ recon_response.fetched[1].candidates[i].status = "Rejected"
    /\ sessions[recon_response.request.session_id].status = "PendingPartial"

\* C25: reopen on a stored session that is Open succeeds and leaves the
\* stored session as it is, Rejected candidates included; every reopen
\* leaves the session Open, so a second reopen changes nothing more.
ReopenOpenIsNoOp ==
    [][ ( recon_response'.op = "reopen"
          /\ recon_response'.request.session_id \in DOMAIN sessions )
        => LET sid == recon_response'.request.session_id IN
           /\ recon_response'.result.status = "Ok"
           /\ sessions[sid].status = "Open" => sessions' = sessions
           /\ sessions'[sid].status = "Open"
           /\ session_reopen(sessions'[sid]).session = sessions'[sid]
      ]_vars

\* an Open session with a Rejected candidate was reopened
ReopenOpenIsNoOpWitness ==
    /\ recon_response.op = "reopen"
    /\ recon_response.result.status = "Ok"
    /\ IsSome(recon_response.fetched)
    /\ recon_response.fetched[1].status = "Open"
    /\ LET session == sessions[recon_response.request.session_id] IN
       \E i \in 1..Len(session.candidates) : session.candidates[i].status = "Rejected"

\* the events of the log that a filter asks for, in append order
Matching(log, filter) ==
    LET Wanted(event) ==
            /\ event.company_id = filter.tenant.tenant_id
            /\ IsSome(filter.entity_id) => event.entity_id = filter.entity_id[1]
    IN  SelectSeq(log, Wanted)

\* the pages a client reads with a fixed limit, each asked for with the id
\* of the last event of the page before as cursor, until a page is empty
RECURSIVE PagesFrom(_, _)
PagesFrom(filter, fuel) ==
    LET page == ListAuditTrailResult(filter).value IN
    IF page = <<>> \/ fuel = 0 THEN <<>>
    ELSE page \o PagesFrom([filter EXCEPT !.cursor = Some(page[Len(page)].id)], fuel - 1)

\* C26: list_audit_trail changes no state and returns, in append order, the
\* tenant's events (of the entity, when given) behind the event whose id is
\* the cursor (all of them without a cursor or when no such event carries
\* it), cut to the limit; reading page after page with a fixed positive
\* limit and the last id as cursor yields every matching event once, in order.
AuditTrailPaging ==
    [][ response'.op = "list_audit_trail"
           => LET filter == response'.request
                  wanted == Matching(audit_events, filter)
                  at == IF IsSome(filter.cursor)
                        THEN {i \in 1..Len(wanted) : wanted[i].id = filter.cursor[1]}
                        ELSE {}
                  rest == IF at = {} THEN wanted
                          ELSE SubSeq(wanted, (CHOOSE i \in at : TRUE) + 1, Len(wanted))
                  page == response'.result.value
              IN  /\ response'.result.status = "Ok"
                  /\ Cardinality(at) <= 1
                  /\ IsSome(filter.limit) => Len(page) <= filter.limit[1]
                  /\ Len(page) <= Len(rest)
                  /\ page = SubSeq(rest, 1, Len(page))
                  /\ (~IsSome(filter.limit) \/ Len(page) < filter.limit[1]) => page = rest
                  /\ \A limit \in 1..2 :
                        PagesFrom([filter EXCEPT !.cursor = None, !.limit = Some(limit)],
                                  Len(audit_events) + 1) = wanted
                  /\ ledgerVars' = <<company_seq, companies, accounts, account_codes,
                                     journals, periods, entries, entry_companies,
                                     audit_events, audit_seq, response'>>
      ]_vars

\* the second of three events of co-1 was returned alone, behind the cursor
AuditTrailPagingWitness ==
    /\ response.op = "list_audit_trail"
    /\ response.request.cursor = Some("audit-1")
    /\ response.request.limit = Some(1)
    /\ Len(response.result.value) = 1
    /\ response.result.value[1].id = "audit-2"
    /\ Len(Matching(audit_events, response.request)) = 3

\* the audit action of each service method
ActionOf(op) ==
    CASE op = "create_session" -> "SessionCreated"
      [] op = "add_candidate" -> "CandidateAdded"
      [] op = "accept" -> "CandidateAccepted"
      [] op = "reject" -> "CandidateRejected"
      [] op = "accept_partial" -> "CandidatePartiallyAccepted"
      [] op = "write_off" -> "CandidateWrittenOff"
      [] op = "reopen" -> "SessionReopened"

\* the store holds what the call wrote
Saved(call) ==
    LET stored == sessions[call.request.session_id].candidates
        Held(candidate) == \E i \in 1..Len(stored) : stored[i] = candidate
    IN  CASE call.op = "create_session" -> call.result.value.id \in DOMAIN sessions
          [] call.op = "reopen" -> sessions[call.request.session_id] = call.result.value
          [] call.op = "accept_partial" ->
                \A k \in 1..Len(call.result.value) : Held(call.result.value[k])
          [] OTHER -> Held(call.result.value)

\* C27: the step in which a successful call returns appends one event with
\* the call's action to the log of every registered hook and to no other
\* log, and the store then already holds what the call wrote; a call that
\* returns an error, and every step that is not a return, appends nothing.
HooksHearEverySuccess ==
    [][ /\ \A task \in Tasks :
              (recon_calls[task].pc = "done" /\ recon_calls'[task].pc = "idle")
              => LET call == recon_calls[task] IN
                 IF call.result.status = "Ok"
                 THEN /\ Saved(call)
                      /\ sessions' = sessions
                      /\ \A hook \in Hooks :
                            IF \E i \in 1..Len(audit_hooks) : audit_hooks[i] = hook
                            THEN /\ Len(hook_log'[hook]) = Len(hook_log[hook]) + 1
                                 /\ SubSeq(hook_log'[hook], 1, Len(hook_log[hook]))
                                        = hook_log[hook]
                                 /\ hook_log'[hook][Len(hook_log'[hook])].action
                                        = ActionOf(call.op)
                                 /\ hook_log'[hook][Len(hook_log'[hook])].session_id
                                        = IF call.op = "create_session"
                                          THEN call.result.value.id
                                          ELSE call.request.session_id
                            ELSE hook_log'[hook] = hook_log[hook]
                 ELSE hook_log' = hook_log
        /\ ( \A task \in Tasks :
                ~(recon_calls[task].pc = "done" /\ recon_calls'[task].pc = "idle") )
           => hook_log' = hook_log
      ]_vars

\* a write-off reached both hooks, the second of them registered after an
\* earlier reject had reached the first
HooksHearEverySuccessWitness ==
    /\ recon_response.op = "write_off"
    /\ recon_response.result.status = "Ok"
    /\ Len(hook_log["h1"]) = 2
    /\ hook_log["h1"][1].action = "CandidateRejected"
    /\ hook_log["h1"][2].action = "CandidateWrittenOff"
    /\ Len(hook_log["h2"]) = 1
    /\ hook_log["h2"][1].action = "CandidateWrittenOff"

\* C28: mark_reconciled changes the status to Reconciled{s} from Pending{s}
\* and from nothing else; mark_reconciliation_pending fails with Validation
\* on a Reconciled or WriteOff entry and mark_write_off on a Reconciled one;
\* a failing call leaves the entry as it was; and a Reconciled or WriteOff
\* entry becomes Unreconciled through clear_reconciliation alone.
ReconciliationStatusGuarded ==
    [][ LET op == response'.op
            before == held_entry.reconciliation_status
            now == held_entry'.reconciliation_status
            status == response'.result.status
        IN  /\ [held_entry' EXCEPT !.reconciliation_status = before] = held_entry
            /\ status # "Ok" => held_entry' = held_entry
            /\ op = "mark_reconciled"
                  => LET s == response'.request.argument IN
                     /\ before = Pending(s) => (status = "Ok" /\ now = Reconciled(s))
                     /\ (now.kind = "Reconciled" /\ now # before) => before = Pending(s)
                     /\ (now.kind = "Reconciled" /\ now # before) => now = Reconciled(s)
            /\ (op = "mark_reconciliation_pending"
                /\ before.kind \in {"Reconciled", "WriteOff"})
                  => status = "Validation"
            /\ (op = "mark_write_off" /\ before.kind = "Reconciled")
                  => status = "Validation"
            /\ (now.kind = "Reconciled" /\ now # before) => op = "mark_reconciled"
            /\ (before.kind \in {"Reconciled", "WriteOff"} /\ now.kind = "Unreconciled")
                  => op = "clear_reconciliation"
      ]_vars

\* an entry pending under sess-2 was reconciled under sess-2
ReconciliationStatusGuardedWitness ==
    /\ response.op = "mark_reconciled"
    /\ response.result.status = "Ok"
    /\ response.request.argument = "sess-2"
    /\ response.request.entry.reconciliation_status = Pending("sess-2")
    /\ held_entry.reconciliation_status = Reconciled("sess-2")

\* a line as C29 describes it: a foreign amount without a rate, or with a
\* rate of another base or quote or without source; or a functional-currency
\* amount with a rate or with a different functional amount
LacksProvenance(line) ==
    IF line.currency # line.functional_currency
    THEN \/ line.exchange_rate = None
         \/ line.exchange_rate[1].base # line.currency
         \/ line.exchange_rate[1].quote # line.functional_currency
         \/ line.exchange_rate[1].source = None
    ELSE \/ line.exchange_rate # None
         \/ line.amount_minor # line.functional_amount_minor

\* a post_entry call with a balanced entry one of whose lines lacks provenance
PostsWithoutProvenance(call) ==
    /\ call.op = "post_entry"
    /\ LET lines == call.request.entry.lines
           Sum(side) == SumSide(lines, side, 1)
       IN  /\ Sum("Debit") = Sum("Credit")
           /\ \E i \in 1..Len(lines) : LacksProvenance(lines[i])

\* C29 as stated: such a call fails with Validation 'Currency amounts must
\* include provenance' and stores nothing.
MissingProvenanceIsValidation ==
    [][ PostsWithoutProvenance(response')
        => /\ response'.result.status = "Validation"
           /\ response'.result.message = "Currency amounts must include provenance"
           /\ entries' = entries
      ]_vars

\* C29 amended: such a call fails and stores nothing; it fails with
\* Validation 'Currency amounts must include provenance' when its lines name
\* posting-eligible accounts of one company whose journal exists and is Open.
MissingProvenanceNeverPosts ==
    [][ PostsWithoutProvenance(response')
        => LET entry == response'.request.entry IN
           /\ response'.result.status # "Ok"
           /\ entries' = entries /\ entry_companies' = entry_companies
           /\ audit_events' = audit_events
           /\ ( /\ Postable(entry.lines)
                /\ LET key == journal_key(accounts[entry.lines[1].account_id].company_id,
                                          entry.journal_id)
                   IN  key \in DOMAIN journals /\ journals[key].period_state = "Open" )
              => /\ response'.result.status = "Validation"
                 /\ response'.result.message = "Currency amounts must include provenance"
      ]_vars

\* a USD line that carries an exchange rate was refused in a journal that
\* had been closed and reopened
MissingProvenanceNeverPostsWitness ==
    /\ response.op = "post_entry"
    /\ response.result.message = "Currency amounts must include provenance"
    /\ response.request.entry.lines[1].currency = USD
    /\ response.request.entry.lines[1].exchange_rate # None
    /\ Len(journals[journal_key("co-1", "jnl-gl")].lock_history) = 2

\* C30: while a journal's period_state is Closed, no ledger operation stores
\* a new Posted entry in that journal
CloseIsAbsolute ==
    [][ \A key \in DOMAIN journals :
            journals[key].period_state = "Closed"
            => ~ \E id \in DOMAIN entries' \ DOMAIN entries :
                    /\ entries'[id].status = "Posted"
                    /\ journal_key(entry_companies'[id], entries'[id].journal_id) = key
      ]_vars

\* |left| >= |right| for two i64 deltas
Farther(left, right) ==
    IF left = I64Min THEN TRUE
    ELSE IF right = I64Min THEN FALSE
    ELSE Abs(left) >= Abs(right)

\* C31: every score lies in [0,1], and of two scorings by one strategy of
\* proposals with the same descriptions, the one whose |amount_delta_minor|
\* and |date_delta_days| are not smaller does not score higher.
ScoreMonotone ==
    [][ (scored # None /\ scored' # None)
        => LET first == scored[1]
               second == scored'[1]
           IN  /\ second.outcome # None
               /\ second.outcome[1] \in 0..ScoreScale
               /\ ( /\ first.outcome # None
                    /\ second.strategy = first.strategy
                    /\ second.proposal.transaction_description
                           = first.proposal.transaction_description
                    /\ second.proposal.journal_description
                           = first.proposal.journal_description
                    /\ Farther(second.proposal.amount_delta_minor,
                               first.proposal.amount_delta_minor)
                    /\ Farther(second.proposal.date_delta_days,
                               first.proposal.date_delta_days) )
                  => second.outcome[1] <= first.outcome[1]
      ]_vars

\* C32: a successful Commit post_entry appends one event (the entry id,
\* under the entry's company), a successful reverse_entry two ('Reversal
\* requested: {reason}' on the original id, then 'Reversal of {original}:
\* {reason}' on the new id), a successful lock_period one (the journal id);
\* every other call and every failing call appends none.
AuditGrowthPerCall ==
    [][ LET call == response'
            ok == call.result.status = "Ok"
            new == SubSeq(audit_events', Len(audit_events) + 1, Len(audit_events'))
        IN  /\ Len(audit_events') >= Len(audit_events)
            /\ SubSeq(audit_events', 1, Len(audit_events)) = audit_events
            /\ CASE call.op = "post_entry" /\ ok /\ call.request.mode = "Commit" ->
                      /\ Len(new) = 1
                      /\ new[1].entity_id = call.request.entry.id
                      /\ new[1].company_id = entry_companies'[call.request.entry.id]
                 [] call.op = "reverse_entry" /\ ok ->
                      /\ Len(new) = 2
                      /\ new[1].entity_id = call.request.entry_id
                      /\ new[1].description = "Reversal requested: " \o call.request.reason
                      /\ new[2].entity_id = call.result.value.id
                      /\ new[2].entity_id # call.request.entry_id
                      /\ new[2].description =
                            "Reversal of " \o call.request.entry_id \o ": "
                                \o call.request.reason
                 [] call.op = "lock_period" /\ ok ->
                      /\ Len(new) = 1
                      /\ new[1].entity_id = call.request.journal_id
                 [] OTHER -> new = <<>>
      ]_vars

\* a reversal put its two events behind those of a post and a lock, and a
\* refused post after it left the log alone
AuditGrowthPerCallWitness ==
    /\ response.op = "post_entry"
    /\ response.result.status = "Rejected"
    /\ Len(audit_events) = 4
    /\ audit_events[1].entity_id = "e1"
    /\ audit_events[2].entity_id = "jnl-gl"
    /\ audit_events[3].description = "Reversal requested: requested"
    /\ audit_events[4].description = "Reversal of e1: requested"

\* C33: mark_reconciled returns Ok without changing the status only on an
\* entry that is already Reconciled under the session id of the call; on an
\* entry Reconciled under another session id it returns an error.
MarkReconciledNeverSilent ==
    [][ response'.op = "mark_reconciled"
        => LET before == held_entry.reconciliation_status
               session_id == response'.request.argument
               ok == response'.result.status = "Ok"
           IN  /\ (ok /\ held_entry'.reconciliation_status = before)
                     => before = Reconciled(session_id)
               /\ (before.kind = "Reconciled" /\ before # Reconciled(session_id)) => ~ok
      ]_vars

\* C34: every line of every stored entry has the base_currency of the
\* entry's company as its functional_currency.
StoredLinesInBaseCurrency ==
    \A id \in DOMAIN entries :
        \A i \in 1..Len(entries[id].lines) :
            entries[id].lines[i].functional_currency
                = companies[entry_companies[id]].base_currency

\* C35: every candidate with status WrittenOff carries a write_off_reason
\* that is not blank.
WrittenOffHasReason ==
    \A id \in DOMAIN sessions :
        \A i \in 1..Len(sessions[id].candidates) :
            LET candidate == sessions[id].candidates[i] IN
            candidate.status = "WrittenOff"
                => /\ IsSome(candidate.write_off_reason)
                   /\ Trim(candidate.write_off_reason[1]) # <<>>

\* C36: a stored entry is never replaced: every step keeps it with its
\* lines, journal, company and reverses_entry_id, and changes nothing of it
\* but reversed_by_entry_id, which a reverse_entry sets from None to the id
\* of the reversal.
StoredEntriesNeverReplaced ==
    [][ \A id \in DOMAIN entries :
            /\ id \in DOMAIN entries'
            /\ entry_companies'[id] = entry_companies[id]
            /\ \/ entries'[id] = entries[id]
               \/ /\ response'.op = "reverse_entry"
                  /\ response'.result.status = "Ok"
                  /\ entries[id].reversed_by_entry_id = None
                  /\ entries'[id] =
                        [entries[id] EXCEPT
                            !.reversed_by_entry_id = Some(response'.result.value.id)]
      ]_vars

\* the candidates of a session that have one of the statuses
InStatus(session, statuses) ==
    {i \in 1..Len(session.candidates) : session.candidates[i].status \in statuses}

\* C37: in every stored session at most one candidate is Accepted and the
\* session is Closed iff one is; a Closed session has no Pending or
\* PartiallyAccepted candidate; an Open session has only Pending or Rejected
\* candidates; a PendingPartial session has no Accepted candidate and at
\* least one that is PartiallyAccepted or WrittenOff.
SessionStatusMatchesCandidates ==
    \A id \in DOMAIN sessions :
        LET session == sessions[id]
            all == 1..Len(session.candidates)
        IN  /\ session.status \in {"Open", "PendingPartial", "Closed"}
            /\ Cardinality(InStatus(session, {"Accepted"})) <= 1
            /\ session.status = "Closed"
                  <=> Cardinality(InStatus(session, {"Accepted"})) = 1
            /\ session.status = "Closed"
                  => InStatus(session, {"Pending", "PartiallyAccepted"}) = {}
            /\ session.status = "Open"
                  => InStatus(session, {"Pending", "Rejected"}) = all
            /\ session.status = "PendingPartial"
                  => /\ InStatus(session, {"Accepted"}) = {}
                     /\ InStatus(session, {"PartiallyAccepted", "WrittenOff"}) # {}

\* a Closed session holds an Accepted, a WrittenOff and a Rejected candidate
SessionStatusMatchesCandidatesWitness ==
    \E id \in DOMAIN sessions :
        /\ sessions[id].status = "Closed"
        /\ InStatus(sessions[id], {"Accepted"}) # {}
        /\ InStatus(sessions[id], {"WrittenOff"}) # {}
        /\ InStatus(sessions[id], {"Rejected"}) # {}

\* C38: a reconciliation call that returns an error leaves every stored
\* session as it was, whatever the mutator did to its working copy.
FailedCallKeepsStoredSession ==
    [][ recon_response'.result.status # "Ok" => sessions' = sessions ]_vars

\* an accept_partial failed on its second candidate after it had marked the
\* first one in its working copy, and the stored session is the fetched one
FailedCallKeepsStoredSessionWitness ==
    /\ recon_response.op = "accept_partial"
    /\ recon_response.result.status = "InvalidTransition"
    /\ IsSome(recon_response.fetched)
    /\ LET fetched == recon_response.fetched[1]
           left == partial_accept(fetched, recon_response.request.group_id,
                                  recon_response.request.candidate_ids).session
       IN  /\ sessions[fetched.id] = fetched
           /\ left # fetched
           /\ InStatus(left, {"PartiallyAccepted"}) # InStatus(fetched, {"PartiallyAccepted"})

\* the state ensure_period reports for a period of a journal
Reported(recorded, key, period) ==
    LET pkey == <<key[1], key[2], period.fiscal_year, period.period>>
    IN  IF pkey \in DOMAIN recorded THEN recorded[pkey] ELSE "Open"

\* C39: after every step each journal's period_state is the target state of
\* the last record of its lock_history (Open for an empty history) and, with
\* a history, the state ensure_period reports for the period of that record;
\* a lock_period changes no journal and no recorded period state of a
\* company other than the tenant's.
GateFollowsLatestLock ==
    [][ /\ \A key \in DOMAIN journals' :
              LET journal == journals'[key]
                  history == journal.lock_history
              IN  IF history = <<>> THEN journal.period_state = "Open"
                  ELSE LET last == history[Len(history)] IN
                       /\ journal.period_state
                              = StateFromHistory(history, last.period, Len(history))
                       /\ journal.period_state = Reported(periods', key, last.period)
        /\ response'.op = "lock_period"
              => /\ \A key \in DOMAIN journals :
                        key[1] # response'.request.tenant.tenant_id
                            => journals'[key] = journals[key]
                 /\ \A pkey \in DOMAIN periods' :
                        pkey[1] # response'.request.tenant.tenant_id
                            => pkey \in DOMAIN periods /\ periods'[pkey] = periods[pkey]
      ]_vars

\* co-2 closed period 2 and a dry run of co-1 is accepted, while co-1's
\* journal is Open by its last lock, on period 2, with period 1 SoftClosed
GateFollowsLatestLockWitness ==
    /\ response.op = "post_entry"
    /\ response.result.status = "Ok"
    /\ journal_key("co-2", "jnl-gl") \in DOMAIN journals
    /\ journals[journal_key("co-2", "jnl-gl")].period_state = "Closed"
    /\ journals[journal_key("co-1", "jnl-gl")].period_state = "Open"
    /\ Len(journals[journal_key("co-1", "jnl-gl")].lock_history) = 2
    /\ Reported(periods, journal_key("co-1", "jnl-gl"), Period(2024, 1)) = "SoftClosed"

\* C40: the parent of every stored account belongs to the company of the
\* account.
ParentsInSameCompany ==
    \A id \in DOMAIN accounts :
        LET parent == accounts[id].parent_account_id IN
        (IsSome(parent) /\ parent[1] \in DOMAIN accounts)
            => accounts[parent[1]].company_id = accounts[id].company_id

====
